---- MODULE Spec2Model ----
(***************************************************************************)
(* E-mergo App Object Importer: the reconciliation engine (classification  *)
(* of source items against the current app's objects), the import/update   *)
(* executor with its per-type importers, the batch orchestrator and the    *)
(* app connection caches.                                                  *)
(***************************************************************************)
EXTENDS Integers, Sequences, FiniteSets, TLC

(***************************************************************************)
(* Bounds                                                                  *)
(***************************************************************************)
\* longest list of one type held in currAppObjects in the classification runs
MaxDest == 2
\* number of items fetched from the selected app in a session
NumSrc == 2
\* importer operations that can be in flight at the same time
MaxOps == 2
\* importMultipleItems chains that can exist at the same time
MaxBatches == 1
\* times the import modal is shown in one extension instance
MaxModalOpens == 2
\* sections of the script the current app returns to an importer
MaxSections == 2
\* promises a followed sequence of openApp calls may create
MaxPromises == 4
\* getExtensions calls followed in one behaviour
MaxExtensionCalls == 3
\* items a collector's list holds at most
MaxItems == 3

(***************************************************************************)
(* Value universes                                                         *)
(***************************************************************************)
Types == {"script", "sheet", "dimension", "measure", "masterObject", "alternate-state", "variable"}

\* titles / names / tab labels, in ascending label order
TitleSeq == <<"T1", "T2", "T3">>
Titles == {TitleSeq[k] : k \in 1..Len(TitleSeq)}
TitleOrd(t) == CHOOSE k \in 1..Len(TitleSeq) : TitleSeq[k] = t

\* definitions, script bodies and other compared payloads
Contents == {"c1", "c2", "c3"}
\* payload that is not part of the data definition (colours, comments)
Extras == {"e1", "e2"}
Visualizations == {"barchart", "piechart"}

\* document identifiers: the current app and two other apps of the app list
CurrAppId == "curr"
AppIds == {CurrAppId, "A", "B"}
\* the three places that call the engine's qlik.openApp
Sites == {"appInfo", "importers", "modal"}
\* collectors called by one $q.all over get*Info (part_002 lines 61-68, 1037-1044)
NumCollectors == 7

VARIABLES
    currAppObjects,   \* part_002 currAppObjects: [loaded, list[type]]
    srcItems,         \* the items fetched from the selected app (modal $q.all args)
    allItems,         \* $scope.allItems, flattened: the prepared items
    loading,          \* $scope.loading
    activeAsset,      \* $scope.activeAsset
    searchQuery,      \* $scope.search.query
    scopeStatus,      \* $scope.status of the modal
    ops,              \* importer operations in flight, by slot
    batches,          \* importMultipleItems promise chains, by slot
    lastCall,         \* the latest importItem / updateItem call of the template and its outcome
    apps,             \* util/app-info.js apps: the collectors' connection cache
    _apps,            \* importers _apps: the importers' connection cache
    openCalls,        \* qlik.openApp calls issued, by calling site and identifier
    returned,         \* promises handed out by openApp, by cache and identifier
    nextPromise,      \* identity of the next promise object created by openApp
    fsm,              \* state of the controller's state machine: IDLE or MODAL
    enterApp,         \* app handed to enterModal while currAppObjects.load() runs, "" when none
    modalApp,         \* appData.id of the modal that is shown, "" when none
    modalOpens,       \* times showAppObjectImporterForApp ran
    importerCall,     \* one call of an importer function: its arguments, what the engine
                      \* returns to it and the engine calls it has made
    appInfo,          \* util/app-info.js: extensionList, the requests for extension data,
                      \* the getExtensions calls in flight and a collector that is running
    destroyed,        \* the controller's scope got $destroy
    engineApp,        \* the current app as the engine holds it (its sheets' ranks, its
                      \* script), what currAppObjects.load() listed of it, and the
                      \* importer calls on it that are in flight or done
    legacy            \* the modal $scope of the 1.0 controller: settings, the items of one
                      \* type with their flags, and the promise chain of addAllItems

(***************************************************************************)
(* Property objects. An object is an ordered list of <<key, value>> pairs  *)
(* (JavaScript keeps insertion order), a sheet's cells are a list of such  *)
(* objects, and rank is the sheet's numeric rank.                          *)
(***************************************************************************)
Get(fields, key) ==
    IF \E k \in 1..Len(fields) : fields[k][1] = key
    THEN fields[CHOOSE k \in 1..Len(fields) :
                    /\ fields[k][1] = key
                    /\ \A j \in 1..(k - 1) : fields[j][1] # key][2]
    ELSE ""

HasKey(fields, key) == \E k \in 1..Len(fields) : fields[k][1] = key

\* _.omit on a list of pairs
OmitFields(fields, keys) == SelectSeq(fields, LAMBDA p : p[1] \notin keys)

\* _.omit(properties, keys)
Omit(props, keys) == [props EXCEPT !.fields = OmitFields(props.fields, keys)]

\* cells.map(function (a) { return _.omit(a, "name"); })
OmitCellNames(props) ==
    [props EXCEPT !.cells = [k \in 1..Len(props.cells) |-> OmitFields(props.cells[k], {"name"})]]

RECURSIVE FlattenPairs(_)
FlattenPairs(fields) ==
    IF fields = <<>> THEN <<>>
    ELSE <<Head(fields)[1], ":", Head(fields)[2], ",">> \o FlattenPairs(Tail(fields))

RECURSIVE FlattenCells(_)
FlattenCells(cells) ==
    IF cells = <<>> THEN <<>>
    ELSE <<"{">> \o FlattenPairs(Head(cells)) \o <<"}">> \o FlattenCells(Tail(cells))

\* JSON.stringify of a property object: the token sequence in key order
JSONstringify(props) ==
    <<"{">> \o FlattenPairs(props.fields)
            \o <<"rank", ":", ToString(props.rank), ",">>
            \o <<"cells", ":", "[">> \o FlattenCells(props.cells) \o <<"]", "}">>

NoProps == [fields |-> <<>>, cells |-> <<>>, rank |-> 0]

(***************************************************************************)
(* Items as the collectors and the get*Info functions produce them         *)
(***************************************************************************)
\* app-info getScript + part_002 getScriptInfo
ScriptItem(ix, label, body) ==
    [type |-> "script", id |-> "Section " \o ToString(ix), label |-> label,
     script |-> body,
     properties |-> [NoProps EXCEPT !.fields = << <<"tab", label>>, <<"qScript", body>> >>],
     searchTerms |-> <<>>, tags |-> <<>>]

\* app-info getSheets + part_002 getSheetInfo
SheetItem(id, title, cells, rank) ==
    [type |-> "sheet", id |-> id, label |-> title, script |-> "",
     properties |-> [fields |-> << <<"qInfo", id>>, <<"title", title>> >>,
                     cells |-> cells, rank |-> rank],
     searchTerms |-> <<>>, tags |-> <<>>]

\* app-info getDimensions + part_002 getDimensionInfo
DimensionItem(id, title, def, tags) ==
    [type |-> "dimension", id |-> id, label |-> title, script |-> "",
     properties |-> [NoProps EXCEPT !.fields = << <<"qInfo", id>>, <<"title", title>>, <<"qDim", def>> >>],
     searchTerms |-> <<def>>, tags |-> tags]

\* app-info getMeasures + part_002 getMeasureInfo
MeasureItem(id, title, def, tags) ==
    [type |-> "measure", id |-> id, label |-> title, script |-> "",
     properties |-> [NoProps EXCEPT !.fields = << <<"qInfo", id>>, <<"title", title>>, <<"qMeasure", def>> >>],
     searchTerms |-> <<def>>, tags |-> tags]

\* app-info getDataDefinition: the data definition read from the properties
getDataDefinition(props) ==
    IF HasKey(props.fields, "qHyperCubeDef") THEN <<Get(props.fields, "qHyperCubeDef")>>
    ELSE IF HasKey(props.fields, "qListObjectDef") THEN <<Get(props.fields, "qListObjectDef")>>
    ELSE <<>>

\* app-info getMasterObjects + part_002 getMasterObjectInfo
MasterObjectItem(id, title, viz, def, extra, tags) ==
    LET props == [NoProps EXCEPT !.fields = << <<"qInfo", id>>, <<"title", title>>,
                                               <<"visualization", viz>>,
                                               <<"qHyperCubeDef", def>>,
                                               <<"color", extra>> >>]
    IN [type |-> "masterObject", id |-> id, label |-> title, script |-> "",
        properties |-> props,
        searchTerms |-> getDataDefinition(props), tags |-> tags]

\* app-info getAlternateStates + part_002 getAlternateStateInfo
AlternateStateItem(name) ==
    [type |-> "alternate-state", id |-> name, label |-> name, script |-> "",
     properties |-> [NoProps EXCEPT !.fields = << <<"qStateName", name>> >>],
     searchTerms |-> <<>>, tags |-> <<>>]

\* app-info getVariables + part_002 getVariableInfo
VariableItem(id, name, def, comment, scriptCreated) ==
    [type |-> "variable", id |-> id, label |-> name, script |-> "",
     properties |-> [NoProps EXCEPT !.fields = << <<"qInfo", id>>, <<"qName", name>>,
                                                  <<"qDefinition", def>>,
                                                  <<"qComment", comment>>,
                                                  <<"qIsScriptCreated", scriptCreated>>,
                                                  <<"qMeta", id>> >>],
     searchTerms |-> <<def>>, tags |-> <<>>]

Title(item) == Get(item.properties.fields, "title")

(***************************************************************************)
(* Reconciliation engine (part_002)                                        *)
(***************************************************************************)
\* currAppObjects[type] when it is set (an empty array counts as set)
CurrList(type) ==
    IF currAppObjects.loaded /\ type \in DOMAIN currAppObjects.list
    THEN currAppObjects.list[type] ELSE <<>>

\* variant: a master object exists only when its properties other than the id are equal
doesItemExistInCurrentApp_byProperties(item) ==
    LET L == CurrList(item.type) IN
    IF ~currAppObjects.loaded THEN FALSE
    ELSE CASE item.type = "script" ->
                \E k \in 1..Len(L) : L[k].script = item.script
           [] item.type \in {"sheet", "dimension", "measure"} ->
                \E k \in 1..Len(L) : Title(L[k]) = Title(item)
           [] item.type = "masterObject" ->
                \E k \in 1..Len(L) :
                    JSONstringify(Omit(L[k].properties, {"qInfo"}))
                      = JSONstringify(Omit(item.properties, {"qInfo"}))
           [] item.type = "alternate-state" ->
                \E k \in 1..Len(L) : L[k].id = item.id
           [] item.type = "variable" ->
                \E k \in 1..Len(L) :
                    /\ Get(L[k].properties.fields, "qName") = Get(item.properties.fields, "qName")
                    /\ Get(L[k].properties.fields, "qDefinition")
                         = Get(item.properties.fields, "qDefinition")
           [] OTHER -> FALSE

doesItemExistInCurrentApp(item) ==
    LET L == CurrList(item.type) IN
    IF ~currAppObjects.loaded THEN FALSE
    ELSE CASE item.type = "script" ->
                \E k \in 1..Len(L) : L[k].script = item.script
           [] item.type \in {"sheet", "dimension", "measure"} ->
                \E k \in 1..Len(L) : Title(L[k]) = Title(item)
           [] item.type = "masterObject" ->
                \E k \in 1..Len(L) :
                    /\ Title(L[k]) = Title(item)
                    /\ Get(L[k].properties.fields, "visualization")
                         = Get(item.properties.fields, "visualization")
                    /\ L[k].searchTerms = item.searchTerms
           [] item.type = "alternate-state" ->
                \E k \in 1..Len(L) : L[k].id = item.id
           [] item.type = "variable" ->
                \E k \in 1..Len(L) :
                    /\ Get(L[k].properties.fields, "qName") = Get(item.properties.fields, "qName")
                    /\ Get(L[k].properties.fields, "qDefinition")
                         = Get(item.properties.fields, "qDefinition")
           [] OTHER -> FALSE

\* variant: a variable is blocked only by a variable of the same name and definition
isItemImportableInCurrentApp_byDefinition(item) ==
    LET L == CurrList(item.type) IN
    IF ~currAppObjects.loaded THEN TRUE
    ELSE CASE item.type = "alternate-state" ->
                \A k \in 1..Len(L) : L[k].id # item.id
           [] item.type = "variable" ->
                \A k \in 1..Len(L) :
                    \/ Get(L[k].properties.fields, "qName") # Get(item.properties.fields, "qName")
                    \/ Get(L[k].properties.fields, "qDefinition")
                         # Get(item.properties.fields, "qDefinition")
           [] OTHER -> TRUE

isItemImportableInCurrentApp(item) ==
    LET L == CurrList(item.type) IN
    IF ~currAppObjects.loaded THEN TRUE
    ELSE CASE item.type = "alternate-state" ->
                \A k \in 1..Len(L) : L[k].id # item.id
           [] item.type = "variable" ->
                \A k \in 1..Len(L) :
                    Get(L[k].properties.fields, "qName") # Get(item.properties.fields, "qName")
           [] OTHER -> TRUE

\* the filter callback of getTargetIdIfItemIsUpdatableInCurrentApp, per type
UpdatableMatch(a, item) ==
    CASE item.type = "script" ->
            a.label = item.label /\ a.script # item.script
      [] item.type = "sheet" ->
            /\ Title(a) = Title(item)
            /\ JSONstringify(OmitCellNames(Omit(a.properties, {"qInfo"})))
                 # JSONstringify(OmitCellNames(Omit(item.properties, {"qInfo"})))
      [] item.type = "dimension" ->
            /\ Title(a) = Title(item)
            /\ Get(a.properties.fields, "qDim") # Get(item.properties.fields, "qDim")
      [] item.type = "measure" ->
            /\ Title(a) = Title(item)
            /\ Get(a.properties.fields, "qMeasure") # Get(item.properties.fields, "qMeasure")
      [] item.type = "masterObject" ->
            /\ Title(a) = Title(item)
            /\ JSONstringify(Omit(a.properties, {"qInfo"}))
                 # JSONstringify(Omit(item.properties, {"qInfo"}))
      [] item.type = "variable" ->
            /\ Get(a.properties.fields, "qName") = Get(item.properties.fields, "qName")
            /\ JSONstringify(Omit(a.properties, {"qInfo", "qMeta", "qIsScriptCreated"}))
                 # JSONstringify(Omit(item.properties, {"qInfo", "qMeta", "qIsScriptCreated"}))
      [] OTHER -> FALSE

\* the id carried by a filtered entry: script entries are mapped to {id: label}
TargetIdOf(a) == IF a.type = "script" THEN a.label ELSE a.id

\* variant: the last qualifying object is taken instead of the first
getTargetIdIfItemIsUpdatableInCurrentApp_last(item) ==
    LET L == CurrList(item.type)
        targetId == SelectSeq(L, LAMBDA a : UpdatableMatch(a, item))
    IN IF currAppObjects.loaded /\ Len(targetId) > 0
       THEN TargetIdOf(targetId[Len(targetId)]) ELSE ""

getTargetIdIfItemIsUpdatableInCurrentApp(item) ==
    LET L == CurrList(item.type)
        targetId == SelectSeq(L, LAMBDA a : UpdatableMatch(a, item))
    IN IF currAppObjects.loaded /\ Len(targetId) > 0 THEN TargetIdOf(targetId[1]) ELSE ""

prepareItem(item) ==
    LET target == getTargetIdIfItemIsUpdatableInCurrentApp(item) IN
    [type |-> item.type, id |-> item.id, label |-> item.label, script |-> item.script,
     properties |-> item.properties,
     searchTerms |-> item.searchTerms \o item.tags,
     tags |-> item.tags,
     updatableTargetId |-> target,
     status |-> [selected |-> FALSE,
                 exists |-> doesItemExistInCurrentApp(item),
                 importable |-> isItemImportableInCurrentApp(item),
                 importing |-> FALSE, imported |-> FALSE, importFailed |-> FALSE,
                 updatable |-> target # "",
                 updating |-> FALSE, updated |-> FALSE, updateFailed |-> FALSE]]

vars == <<currAppObjects, srcItems, allItems, loading, activeAsset, searchQuery, scopeStatus,
          ops, batches, lastCall, apps, _apps, openCalls, returned, nextPromise, fsm,
          enterApp, modalApp, modalOpens, importerCall, appInfo, destroyed, engineApp,
          legacy>>

\* no importer call is being followed
NoCall == [fn |-> "none"]

\* visualization types of sheet objects: a native one, which
\* /qrs/extension/full does not list, and the installed extensions
Installed == {"ext1", "ext2"}
ExtensionIds == {"barchart"} \cup Installed

ExtensionCalls == 1..MaxExtensionCalls
NoExtensionCall == [pc |-> "none", given |-> FALSE, ids |-> {}, waiting |-> {}]
NoCollector == [kind |-> "none", pc |-> "idle", items |-> <<>>]

\* the 1.0 controller before its modal has items
NoLegacy ==
    [type |-> "none", bookmarksImportAlternateStates |-> TRUE, items |-> <<>>,
     chain |-> [state |-> "none", at |-> 0]]

\* the current app before currAppObjects.load() listed it
NoEngineApp ==
    [loaded |-> FALSE, sheets |-> <<>>, listed |-> <<>>, script |-> <<>>,
     pending |-> <<>>, done |-> <<>>]

\* util/app-info.js as loaded: extensionList = null, nothing requested
NoAppInfo ==
    [extensionList |-> "null",
     typed |-> {},
     listRequests |-> 0,
     qextRequests |-> [a \in ExtensionIds |-> 0],
     calls |-> [c \in ExtensionCalls |-> NoExtensionCall],
     collector |-> NoCollector]

itemVars == <<srcItems, allItems, loading, activeAsset, searchQuery, scopeStatus, ops, batches,
             lastCall>>
cacheVars == <<apps, _apps, openCalls, returned, nextPromise>>
modalVars == <<fsm, enterApp, modalApp, modalOpens>>

(***************************************************************************)
(* App connection caches (importers openApp, util/app-info.js openApp)     *)
(***************************************************************************)
NoEntry == [state |-> "none", promise |-> 0]

\* variant: the cache is not consulted, every call opens the app again
openApp_uncached(cache, opens, np, appId) ==
    IF appId = ""
    THEN [cache |-> cache, opens |-> opens, next |-> np + 1,
          ret |-> [promise |-> np, state |-> "rejected"]]
    ELSE IF appId = "obj"
    THEN [cache |-> cache, opens |-> opens, next |-> np + 1,
          ret |-> [promise |-> np, state |-> "resolved"]]
    ELSE [cache |-> [cache EXCEPT ![appId] = [state |-> "waitForOpen", promise |-> np]],
          opens |-> [opens EXCEPT ![appId] = @ + 1],
          next |-> np + 1,
          ret |-> [promise |-> np, state |-> "waitForOpen"]]

\* variant: an entry whose open failed is opened again
openApp_retriesRejected(cache, opens, np, appId) ==
    IF appId = ""
    THEN [cache |-> cache, opens |-> opens, next |-> np + 1,
          ret |-> [promise |-> np, state |-> "rejected"]]
    ELSE IF appId = "obj"
    THEN [cache |-> cache, opens |-> opens, next |-> np + 1,
          ret |-> [promise |-> np, state |-> "resolved"]]
    ELSE LET setCurr == cache[CurrAppId].state = "none"
             c1 == IF setCurr
                   THEN [cache EXCEPT ![CurrAppId] = [state |-> "resolved", promise |-> np]]
                   ELSE cache
             np1 == IF setCurr THEN np + 1 ELSE np
         IN IF c1[appId].state \in {"none", "rejected"}
            THEN [cache |-> [c1 EXCEPT ![appId] = [state |-> "waitForOpen", promise |-> np1]],
                  opens |-> [opens EXCEPT ![appId] = @ + 1],
                  next |-> np1 + 1,
                  ret |-> [promise |-> np1, state |-> "waitForOpen"]]
            ELSE [cache |-> c1, opens |-> opens, next |-> np1, ret |-> c1[appId]]

\* variant: the current app is put in the cache before the identifier is looked at
openApp_seedsFirst(cache, opens, np, appId) ==
    LET setCurr == cache[CurrAppId].state = "none"
        c1 == IF setCurr
              THEN [cache EXCEPT ![CurrAppId] = [state |-> "resolved", promise |-> np]]
              ELSE cache
        np1 == IF setCurr THEN np + 1 ELSE np
    IN IF appId = ""
       THEN [cache |-> c1, opens |-> opens, next |-> np1 + 1,
             ret |-> [promise |-> np1, state |-> "rejected"]]
       ELSE IF appId = "obj"
       THEN [cache |-> c1, opens |-> opens, next |-> np1 + 1,
             ret |-> [promise |-> np1, state |-> "resolved"]]
       ELSE IF c1[appId].state = "none"
       THEN [cache |-> [c1 EXCEPT ![appId] = [state |-> "waitForOpen", promise |-> np1]],
             opens |-> [opens EXCEPT ![appId] = @ + 1],
             next |-> np1 + 1,
             ret |-> [promise |-> np1, state |-> "waitForOpen"]]
       ELSE [cache |-> c1, opens |-> opens, next |-> np1, ret |-> c1[appId]]

\* One call openApp(appId) on a cache: the cache afterwards, the engine open
\* calls of that site afterwards, the promise returned and the next promise
\* identity. appId "" is a missing identifier, "obj" an app object with an id.
openApp(cache, opens, np, appId) ==
    IF appId = ""
    THEN [cache |-> cache, opens |-> opens, next |-> np + 1,
          ret |-> [promise |-> np, state |-> "rejected"]]
    ELSE IF appId = "obj"
    THEN [cache |-> cache, opens |-> opens, next |-> np + 1,
          ret |-> [promise |-> np, state |-> "resolved"]]
    ELSE LET setCurr == cache[CurrAppId].state = "none"
             c1 == IF setCurr
                   THEN [cache EXCEPT ![CurrAppId] = [state |-> "resolved", promise |-> np]]
                   ELSE cache
             np1 == IF setCurr THEN np + 1 ELSE np
         IN IF c1[appId].state = "none"
            THEN [cache |-> [c1 EXCEPT ![appId] = [state |-> "waitForOpen", promise |-> np1]],
                  opens |-> [opens EXCEPT ![appId] = @ + 1],
                  next |-> np1 + 1,
                  ret |-> [promise |-> np1, state |-> "waitForOpen"]]
            ELSE [cache |-> c1, opens |-> opens, next |-> np1, ret |-> c1[appId]]

\* a promise as handed to a caller: its identity and whether it had settled by then
Handed(ret) == [promise |-> ret.promise, settled |-> ret.state \in {"resolved", "rejected"}]

\* n successive openApp(appId) calls on one cache; rets collects the promises returned
RECURSIVE openAppTimes(_, _, _, _, _, _)
openAppTimes(n, cache, opens, np, appId, rets) ==
    IF n = 0 THEN [cache |-> cache, opens |-> opens, next |-> np, rets |-> rets]
    ELSE LET r == openApp(cache, opens, np, appId)
         IN openAppTimes(n - 1, r.cache, r.opens, r.next, appId, rets \cup {Handed(r.ret)})

\* the collectors of one $q.all each call app-info's openApp(appId)
CollectorsOpenApp(appId) ==
    LET r == openAppTimes(NumCollectors, apps, openCalls["appInfo"], nextPromise, appId, {})
    IN /\ apps' = r.cache
       /\ openCalls' = [openCalls EXCEPT !["appInfo"] = r.opens]
       /\ nextPromise' = r.next
       /\ returned' = [returned EXCEPT !["appInfo"][appId] = @ \cup r.rets]
       /\ UNCHANGED _apps

\* an importer (sheet.add, masterObject.update) calls openApp(options.appId)
ImportersOpenApp ==
    /\ modalApp # ""
    /\ LET r == openApp(_apps, openCalls["importers"], nextPromise, modalApp)
       IN /\ _apps' = r.cache
          /\ openCalls' = [openCalls EXCEPT !["importers"] = r.opens]
          /\ nextPromise' = r.next
          /\ returned' = [returned EXCEPT !["importers"][modalApp] = @ \cup {Handed(r.ret)}]
    /\ UNCHANGED <<apps, currAppObjects, importerCall, destroyed, engineApp, legacy, appInfo>>
    /\ UNCHANGED itemVars
    /\ UNCHANGED modalVars

\* app.model.waitForOpen.promise settles: on success the 120 ms timer is started
WaitForOpenSettle(site, appId, ok) ==
    /\ site \in {"appInfo", "importers"}
    /\ LET cache == IF site = "appInfo" THEN apps ELSE _apps
           new == [cache EXCEPT ![appId].state = IF ok THEN "delay" ELSE "rejected"]
       IN /\ cache[appId].state = "waitForOpen"
          /\ IF site = "appInfo" THEN apps' = new /\ UNCHANGED _apps
                                 ELSE _apps' = new /\ UNCHANGED apps
    /\ UNCHANGED <<openCalls, returned, nextPromise, currAppObjects, importerCall, destroyed, engineApp, legacy, appInfo>>
    /\ UNCHANGED itemVars
    /\ UNCHANGED modalVars

\* setTimeout(function () { dfd.resolve(app); }, 120) fires
DelayElapsed(site, appId) ==
    /\ site \in {"appInfo", "importers"}
    /\ LET cache == IF site = "appInfo" THEN apps ELSE _apps
           new == [cache EXCEPT ![appId].state = "resolved"]
       IN /\ cache[appId].state = "delay"
          /\ IF site = "appInfo" THEN apps' = new /\ UNCHANGED _apps
                                 ELSE _apps' = new /\ UNCHANGED apps
    /\ UNCHANGED <<openCalls, returned, nextPromise, currAppObjects, importerCall, destroyed, engineApp, legacy, appInfo>>
    /\ UNCHANGED itemVars
    /\ UNCHANGED modalVars

\* what openApp can be handed: nothing (undefined, ""), an app object with an
\* id field, or the identifier of a document
OpenAppArguments == {"", "obj"} \cup AppIds

\* one call openApp(appId) of either module, followed through importerCall:
\* the argument, how the returned promise stands, the value it is resolved
\* with when that is known at once, and the arguments without identifier seen
OpenAppCalled(site, appId) ==
    /\ site \in {"appInfo", "importers"}
    /\ nextPromise <= MaxPromises
    /\ LET cache == IF site = "appInfo" THEN apps ELSE _apps
           r == openApp(cache, openCalls[site], nextPromise, appId)
       IN /\ IF site = "appInfo" THEN apps' = r.cache /\ UNCHANGED _apps
                                 ELSE _apps' = r.cache /\ UNCHANGED apps
          /\ openCalls' = [openCalls EXCEPT ![site] = r.opens]
          /\ nextPromise' = r.next
          /\ returned' = IF appId \in AppIds
                         THEN [returned EXCEPT ![site][appId] = @ \cup {Handed(r.ret)}]
                         ELSE returned
          /\ importerCall' = [fn |-> "openApp", site |-> site, appId |-> appId,
                              result |-> r.ret.state,
                              value |-> IF appId = "obj" THEN appId ELSE "",
                              seen |-> (IF importerCall = NoCall THEN {} ELSE importerCall.seen)
                                          \cup ({appId} \ AppIds)]
    /\ UNCHANGED <<currAppObjects, appInfo, destroyed, engineApp, legacy>>
    /\ UNCHANGED itemVars
    /\ UNCHANGED modalVars

(***************************************************************************)
(* Extension data (util/app-info.js getExtensions, loadExtensionQext)      *)
(***************************************************************************)
\* the keys of extensionList: none while it is null or the empty object
\* that getExtensions puts there before the list request is answered
Listed(info) == IF info.extensionList = "loaded" THEN Installed ELSE {}

\* loadExtensionQext's filter: the ids whose QEXT file is requested, those
\* with an entry in extensionList that has no type yet. The file's type is
\* stored in the entry when all responses of the call are in.
ToLoad(info, ids) == {a \in ids : a \in Listed(info) /\ a \notin info.typed}

\* loadExtensionQext(extensionIds) called for getExtensions call c
loadExtensionQext(info, c, ids) ==
    LET w == ToLoad(info, ids) IN
    [info EXCEPT !.qextRequests = [a \in ExtensionIds |-> IF a \in w THEN @[a] + 1 ELSE @[a]],
                 !.calls[c].pc = IF w = {} THEN "resolved" ELSE "qext",
                 !.calls[c].waiting = w]

\* getExtensions(options), followed as call c; given: options.extensionIds
\* is there, ids: what it holds
getExtensions(info, c, given, ids) ==
    LET called == [info EXCEPT !.calls[c] = [pc |-> "called", given |-> given, ids |-> ids,
                                             waiting |-> {}]]
    IN IF info.extensionList = "null"
       THEN [called EXCEPT !.extensionList = "empty",
                           !.listRequests = @ + 1,
                           !.calls[c].pc = "list"]
       ELSE IF given
       THEN loadExtensionQext(called, c, ids)
       ELSE [called EXCEPT !.calls[c].pc = "resolved"]

GetExtensionsCalled(c, given, ids) ==
    /\ appInfo.calls[c].pc = "none"
    /\ \A b \in ExtensionCalls : b < c => appInfo.calls[b].pc # "none"
    /\ ~given => ids = {}
    /\ appInfo' = getExtensions(appInfo, c, given, ids)
    /\ UNCHANGED <<currAppObjects, importerCall, destroyed, engineApp, legacy>>
    /\ UNCHANGED itemVars
    /\ UNCHANGED cacheVars
    /\ UNCHANGED modalVars

\* the request of /qrs/extension/full is answered: the entries are stored
\* and the call that made the request goes on to the QEXT files; when the
\* request fails nothing settles the call's deferred
ListResponded(c, ok) ==
    /\ appInfo.calls[c].pc = "list"
    /\ appInfo' =
          IF ~ok THEN [appInfo EXCEPT !.calls[c].pc = "hung"]
          ELSE LET listed == [appInfo EXCEPT !.extensionList = "loaded"]
               IN IF appInfo.calls[c].given
                  THEN loadExtensionQext(listed, c, appInfo.calls[c].ids)
                  ELSE [listed EXCEPT !.calls[c].pc = "resolved"]
    /\ UNCHANGED <<currAppObjects, importerCall, destroyed, engineApp, legacy>>
    /\ UNCHANGED itemVars
    /\ UNCHANGED cacheVars
    /\ UNCHANGED modalVars

\* the $q.all over the QEXT requests of call c settles: every file's data
\* is stored in extensionList, or one request failed and nothing is stored
QextResponded(c, ok) ==
    /\ appInfo.calls[c].pc = "qext"
    /\ appInfo' =
          IF ok THEN [appInfo EXCEPT !.typed = @ \cup appInfo.calls[c].waiting,
                                     !.calls[c].pc = "resolved",
                                     !.calls[c].waiting = {}]
          ELSE [appInfo EXCEPT !.calls[c].pc = "hung"]
    /\ UNCHANGED <<currAppObjects, importerCall, destroyed, engineApp, legacy>>
    /\ UNCHANGED itemVars
    /\ UNCHANGED cacheVars
    /\ UNCHANGED modalVars

(***************************************************************************)
(* Object collectors (util/app-info.js getSheets, getDimensions,           *)
(* getMeasures, getMasterObjects, getVariables, getBookmarks). An item of  *)
(* a collector is followed through its fetches: stage is waiting (not      *)
(* started), object (getObject, getDimension, getMeasure, getVariableById, *)
(* getBookmark), details (getLayout and getProperties and what the         *)
(* collector chains after them), done or failed; cells counts the          *)
(* getObjectProperties chains of a sheet's cells that are outstanding.     *)
(***************************************************************************)
CollectorKinds == {"sheet", "dimension", "measure", "masterObject", "variable", "bookmark"}

\* variant: every collector starts the fetches of all items at once
StartItems_allAtOnce(kind, cells) ==
    [k \in 1..Len(cells) |-> [stage |-> "object", cells |-> cells[k]]]

\* the fetches started when the list of the collector arrives: getSheets
\* walks qItems with forEach and starts every sheet's getObject and every
\* cell's getObjectProperties; the others build a chain with items.reduce,
\* of which the first link runs
StartItems(kind, cells) ==
    IF kind = "sheet"
    THEN [k \in 1..Len(cells) |-> [stage |-> "object", cells |-> cells[k]]]
    ELSE [k \in 1..Len(cells) |-> [stage |-> IF k = 1 THEN "object" ELSE "waiting",
                                   cells |-> 0]]

ItemDone(item) == item.stage = "done" /\ item.cells = 0

\* the promise of the collector after a fetch resolved
CollectorAfter(col, items) ==
    [col EXCEPT !.items = items,
                !.pc = IF col.pc = "items" /\ \A k \in 1..Len(items) : ItemDone(items[k])
                       THEN "resolved" ELSE col.pc]

\* a collector is called: it awaits openApp and asks for the list
CollectorCalled(kind) ==
    /\ appInfo.collector.pc = "idle"
    /\ appInfo' = [appInfo EXCEPT !.collector = [kind |-> kind, pc |-> "list", items |-> <<>>]]
    /\ UNCHANGED <<currAppObjects, importerCall, destroyed, engineApp, legacy>>
    /\ UNCHANGED itemVars
    /\ UNCHANGED cacheVars
    /\ UNCHANGED modalVars

\* the list arrives; cells[k] is the number of cells of sheet k whose
\* objects are loaded (loadWithObjects), 0 for the items of other collectors
CollectorListed(cells) ==
    LET col == appInfo.collector IN
    /\ col.pc = "list"
    /\ col.kind # "sheet" => \A k \in 1..Len(cells) : cells[k] = 0
    /\ appInfo' = [appInfo EXCEPT !.collector =
                      CollectorAfter([col EXCEPT !.pc = "items"], StartItems(col.kind, cells))]
    /\ UNCHANGED <<currAppObjects, importerCall, destroyed, engineApp, legacy>>
    /\ UNCHANGED itemVars
    /\ UNCHANGED cacheVars
    /\ UNCHANGED modalVars

\* the fetch item k is at settles. In a reduce chain the next link runs
\* when the item is done; a rejection rejects the collector's promise and
\* no further link runs.
StageSettled(k, ok) ==
    LET col == appInfo.collector
        item == col.items[k]
        next == IF col.kind = "sheet" \/ item.stage = "details" THEN "done" ELSE "details"
        moved == [col.items EXCEPT ![k].stage = next]
        chained == IF next = "done" /\ k < Len(moved) /\ moved[k + 1].stage = "waiting"
                   THEN [moved EXCEPT ![k + 1].stage = "object"]
                   ELSE moved
    IN /\ col.pc \in {"items", "rejected"}
       /\ k \in 1..Len(col.items)
       /\ item.stage \in {"object", "details"}
       /\ appInfo' = [appInfo EXCEPT !.collector =
                         IF ok THEN CollectorAfter(col, chained)
                         ELSE [col EXCEPT !.items[k].stage = "failed", !.pc = "rejected"]]
       /\ UNCHANGED <<currAppObjects, importerCall, destroyed, engineApp, legacy>>
       /\ UNCHANGED itemVars
       /\ UNCHANGED cacheVars
       /\ UNCHANGED modalVars

\* the getObjectProperties chain of a cell of sheet k settles
CellSettled(k, ok) ==
    LET col == appInfo.collector IN
    /\ col.pc \in {"items", "rejected"}
    /\ k \in 1..Len(col.items)
    /\ col.items[k].cells > 0
    /\ appInfo' = [appInfo EXCEPT !.collector =
                      IF ok THEN CollectorAfter(col, [col.items EXCEPT ![k].cells = @ - 1])
                      ELSE [col EXCEPT !.items[k].cells = @ - 1, !.pc = "rejected"]]
    /\ UNCHANGED <<currAppObjects, importerCall, destroyed, engineApp, legacy>>
    /\ UNCHANGED itemVars
    /\ UNCHANGED cacheVars
    /\ UNCHANGED modalVars

(***************************************************************************)
(* Controller state machine and modal (part_002)                           *)
(***************************************************************************)
\* popover select: fsm.open(item); enterModal starts currAppObjects.load()
FsmOpen(appId) ==
    /\ ~destroyed
    /\ fsm = "IDLE"
    /\ modalOpens < MaxModalOpens
    /\ fsm' = "MODAL"
    /\ enterApp' = appId
    /\ CollectorsOpenApp(CurrAppId)
    /\ UNCHANGED <<modalApp, modalOpens, currAppObjects, importerCall, destroyed, engineApp, legacy, appInfo>>
    /\ UNCHANGED itemVars

\* currAppObjects.load() settles (a rejection is caught and logged), then
\* showAppObjectImporterForApp(app) runs and the modal controller starts
CurrAppLoadSettle(ok, lists) ==
    /\ enterApp # ""
    /\ currAppObjects' = IF ok THEN [loaded |-> TRUE, list |-> lists] ELSE currAppObjects
    /\ modalApp' = enterApp
    /\ enterApp' = ""
    /\ modalOpens' = modalOpens + 1
    /\ LET r == openAppTimes(NumCollectors, apps, openCalls["appInfo"], nextPromise, enterApp, {})
       IN /\ apps' = r.cache
          /\ openCalls' = [openCalls EXCEPT !["appInfo"] = r.opens,
                                            !["modal"][enterApp] = @ + 1]
          /\ nextPromise' = r.next
          /\ returned' = [returned EXCEPT !["appInfo"][enterApp] = @ \cup r.rets]
    /\ srcItems' = <<>>
    /\ allItems' = <<>>
    /\ loading' = TRUE
    /\ activeAsset' = "sheet"
    /\ searchQuery' = ""
    /\ scopeStatus' = [selected |-> FALSE, importing |-> FALSE, imported |-> FALSE,
                       importFailed |-> FALSE]
    /\ UNCHANGED <<fsm, _apps, ops, batches, lastCall, importerCall, destroyed, engineApp, legacy, appInfo>>

\* modal.close(): modal.closed resolves, fsm.close() and modal = null
ModalClose ==
    /\ modalApp # ""
    /\ modalApp' = ""
    /\ fsm' = "IDLE"
    /\ UNCHANGED <<enterApp, modalOpens, currAppObjects, importerCall, destroyed, engineApp, legacy, appInfo>>
    /\ UNCHANGED itemVars
    /\ UNCHANGED cacheVars

\* the $destroy handler of the controller: the popover is closed, and
\* closeAppObjectImporterForApp() closes the modal when the variable modal
\* holds one (modal.closed then resolves: fsm.close())
Destroy ==
    /\ ~destroyed
    /\ destroyed' = TRUE
    /\ IF modalApp # ""
       THEN modalApp' = "" /\ fsm' = "IDLE"
       ELSE UNCHANGED <<modalApp, fsm>>
    /\ UNCHANGED <<enterApp, modalOpens, currAppObjects, importerCall, appInfo, engineApp, legacy>>
    /\ UNCHANGED itemVars
    /\ UNCHANGED cacheVars

\* modal controller: the $q.all over the collectors of the selected app
\* resolved with the items src; every item is prepared
ModalLoaded(src) ==
    /\ loading
    /\ modalApp # ""
    /\ srcItems' = src
    /\ allItems' = [k \in 1..Len(src) |-> prepareItem(src[k])]
    /\ loading' = FALSE
    /\ UNCHANGED <<currAppObjects, importerCall, destroyed, engineApp, legacy, appInfo, activeAsset, searchQuery, scopeStatus, ops, batches, lastCall>>
    /\ UNCHANGED cacheVars
    /\ UNCHANGED modalVars

(***************************************************************************)
(* Importers: the engine calls of add and update, per type                 *)
(***************************************************************************)
NoOp == [item |-> 0, kind |-> "none", by |-> 0, pc |-> "none",
         target |-> "none", cells |-> 0, alt |-> "none"]

Slots == 1..MaxOps
FreeSlots == {s \in Slots : ops[s] = NoOp}
FreeSlot == CHOOSE s \in FreeSlots : \A r \in FreeSlots : s <= r

\* importers.hasOwnProperty(type): the keys of the object importers exports
Registered(type) == type \in Types

\* variant: an item without importer is handed to the script importer
FirstCall_anyType(type, kind) == "getScript"

\* the first engine call of importers[type].add / importers[type].update;
\* noImporter: there is none, the callback returns $q.reject(...)
FirstCall(type, kind) ==
    IF kind = "import"
    THEN CASE type = "script" -> "getScript"
           [] type = "sheet" -> "openApp"
           [] type = "dimension" -> "createDimension"
           [] type = "measure" -> "createMeasure"
           [] type = "masterObject" -> "createObject"
           [] type = "alternate-state" -> "addAlternateState"
           [] type = "variable" -> "createVariableEx"
           [] OTHER -> "noImporter"
    ELSE CASE type = "script" -> "getScript"
           [] type = "sheet" -> "openApp"
           [] type = "dimension" -> "getDimension"
           [] type = "measure" -> "getMeasure"
           [] type = "masterObject" -> "getObject"
           [] type = "alternate-state" -> "addAlternateState"
           [] type = "variable" -> "getVariable"
           [] OTHER -> "noImporter"

\* what follows when the engine call at pc resolves; found: script.update
\* located a section titled options.targetId in the script it read
OnResolve(type, kind, pc, found) ==
    CASE pc = "getScript" ->
            IF kind = "update" /\ ~found THEN "REJECTED" ELSE "setScript"
      [] pc = "setScript" -> "RESOLVED"
      [] pc \in {"createDimension", "createMeasure", "createObject",
                 "addAlternateState", "createVariableEx"} -> "RESOLVED"
      [] pc \in {"getDimension", "getMeasure"} -> "setProperties"
      [] pc = "getObject" -> "openApp"
      [] pc = "getVariable" -> "getProperties"
      [] pc = "getProperties" -> "setProperties"
      [] pc = "setProperties" -> "RESOLVED"
      [] pc = "write" -> "getFullPropertyTree"
      [] pc = "getFullPropertyTree" -> "setFullPropertyTree"
      [] pc = "setFullPropertyTree" -> "RESOLVED"

\* variant: variable.update without its catch
OnReject_noFallback(type, kind, pc) ==
    IF type = "sheet" /\ pc \in {"write", "getFullPropertyTree", "setFullPropertyTree"}
    THEN "HUNG" ELSE "REJECTED"

\* what follows when the engine call at pc rejects
OnReject(type, kind, pc) ==
    CASE type = "sheet" /\ pc \in {"write", "getFullPropertyTree", "setFullPropertyTree"} ->
            "HUNG"
      [] type = "variable" /\ kind = "update"
            /\ pc \in {"getVariable", "getProperties", "setProperties"} -> "createVariableEx"
      [] OTHER -> "REJECTED"

\* engine calls that are settled by EngineSettle
SimpleCalls == {"getScript", "setScript", "createDimension", "createMeasure", "createObject",
                "addAlternateState", "createVariableEx", "getDimension", "getMeasure",
                "getObject", "getVariable", "getProperties", "setProperties", "write",
                "getFullPropertyTree", "setFullPropertyTree"}

(***************************************************************************)
(* Executor: importSingleItem / updateSingleItem (part_002)                *)
(***************************************************************************)
\* variant: an import that failed before is not held back
ImportGuard_retry(status) == ~status.imported /\ status.importable

ImportGuard(status) == ~status.imported /\ ~status.importFailed /\ status.importable

UpdateGuard(status) == ~status.updated /\ ~status.updateFailed /\ status.updatable

\* variant: a successful import does not mark the item imported
ImportSucceeded_unmarked(status) ==
    [status EXCEPT !.exists = TRUE, !.importing = FALSE]

ImportSucceeded(status) ==
    [status EXCEPT !.exists = TRUE, !.importing = FALSE, !.imported = TRUE]

ImportFailed(status) ==
    [status EXCEPT !.importing = FALSE, !.importFailed = TRUE]

UpdateSucceeded(status) ==
    [status EXCEPT !.exists = TRUE, !.updating = FALSE, !.updated = TRUE, !.updatable = FALSE]

\* variant: a failed update withdraws the update offer
UpdateFailed_notUpdatable(status) ==
    [status EXCEPT !.updating = FALSE, !.updateFailed = TRUE, !.updatable = FALSE]

UpdateFailed(status) ==
    [status EXCEPT !.updating = FALSE, !.updateFailed = TRUE]

\* the promise of a batch step settled: the chain of batch b may go on
BatchReleased(b) ==
    IF b = 0 THEN batches ELSE [batches EXCEPT ![b].waiting = FALSE]

\* the operation in slot s moves on to next
Advance(s, next) ==
    LET o == ops[s] IN
    CASE next = "RESOLVED" ->
            /\ allItems' = [allItems EXCEPT ![o.item].status =
                               IF o.kind = "import" THEN ImportSucceeded(@)
                                                    ELSE UpdateSucceeded(@)]
            /\ ops' = [ops EXCEPT ![s] = NoOp]
            /\ batches' = BatchReleased(o.by)
      [] next = "REJECTED" ->
            /\ allItems' = [allItems EXCEPT ![o.item].status =
                               IF o.kind = "import" THEN ImportFailed(@)
                                                    ELSE UpdateFailed(@)]
            /\ ops' = [ops EXCEPT ![s] = NoOp]
            /\ batches' = BatchReleased(o.by)
      [] next = "HUNG" ->
            /\ ops' = [ops EXCEPT ![s].pc = "hung"]
            /\ UNCHANGED <<allItems, batches>>
      [] OTHER ->
            /\ ops' = [ops EXCEPT ![s].pc = next]
            /\ UNCHANGED <<allItems, batches>>

\* the importers' openApp(options.appId) called from inside an importer
ImporterCallsOpenApp ==
    LET r == openApp(_apps, openCalls["importers"], nextPromise, modalApp)
    IN /\ _apps' = r.cache
       /\ openCalls' = [openCalls EXCEPT !["importers"] = r.opens]
       /\ nextPromise' = r.next
       /\ returned' = [returned EXCEPT !["importers"][modalApp] = @ \cup {Handed(r.ret)}]
       /\ UNCHANGED apps

\* an engine call of the operation in slot s resolves (ok) or rejects
EngineSettle(s, ok, found) ==
    LET o == ops[s]
        next == IF ok THEN OnResolve(allItems[o.item].type, o.kind, o.pc, found)
                      ELSE OnReject(allItems[o.item].type, o.kind, o.pc)
    IN /\ o # NoOp
       /\ o.pc \in SimpleCalls
       /\ Advance(s, next)
       /\ IF next = "openApp" THEN ImporterCallsOpenApp ELSE UNCHANGED cacheVars
       /\ UNCHANGED <<currAppObjects, importerCall, destroyed, engineApp, legacy, appInfo, srcItems, loading, activeAsset, searchQuery, scopeStatus, lastCall>>
       /\ UNCHANGED modalVars

\* the catch of importSingleItem / updateSingleItem runs on the rejected
\* promise that $scope.importItem / updateItem made for a type without importer
NoImporterRejected(s) ==
    /\ ops[s] # NoOp
    /\ ops[s].pc = "noImporter"
    /\ Advance(s, "REJECTED")
    /\ UNCHANGED <<currAppObjects, importerCall, destroyed, engineApp, legacy, appInfo, srcItems, loading, activeAsset, searchQuery, scopeStatus, lastCall>>
    /\ UNCHANGED cacheVars
    /\ UNCHANGED modalVars

\* the promise awaited by `await openApp(options.appId)` has settled
OpenAppAwaited(s) ==
    LET o == ops[s]
        type == allItems[o.item].type
        st == _apps[modalApp].state
    IN /\ o # NoOp
       /\ o.pc = "openApp"
       /\ st \in {"resolved", "rejected"}
       /\ IF st = "rejected" THEN Advance(s, "REJECTED")
          ELSE IF type = "sheet" /\ o.target = "failed"
          THEN \* $q.all(requirements) holds an already rejected getObject promise
               Advance(s, "REJECTED")
          ELSE IF type = "sheet"
          THEN \* the cell chain and alternateState.add are started
               /\ ops' = [ops EXCEPT ![s].pc = "requirements",
                                     ![s].cells = Len(allItems[o.item].properties.cells),
                                     ![s].alt = "pending"]
               /\ UNCHANGED <<allItems, batches>>
          ELSE Advance(s, "getFullPropertyTree")
       /\ UNCHANGED <<currAppObjects, importerCall, destroyed, engineApp, legacy, appInfo, srcItems, loading, activeAsset, searchQuery, scopeStatus, lastCall>>
       /\ UNCHANGED cacheVars
       /\ UNCHANGED modalVars

\* variant: $q.all(requirements) does not wait for the cell objects
RequirementsMet_cellsPending(o) ==
    /\ o.target \in {"none", "done"}
    /\ o.alt = "done"

\* $q.all(requirements) of sheet.add has everything it waits for
RequirementsMet(o) ==
    /\ o.target \in {"none", "done"}
    /\ o.cells = 0
    /\ o.alt = "done"

\* one of the requirements of sheet.add settles: the target object
\* (getObject), the next cell (getObjectProperties) or alternateState.add.
\* getObject is issued before the await, so it may settle during it.
RequirementSettle(s, which, ok) ==
    LET o == ops[s]
        o1 == CASE which = "target" -> [o EXCEPT !.target = IF ok THEN "done" ELSE "failed"]
                [] which = "cell" -> [o EXCEPT !.cells = @ - 1]
                [] which = "alt" -> [o EXCEPT !.alt = "done"]
    IN /\ o # NoOp
       /\ CASE which = "target" -> o.target = "pending" /\ o.pc \in {"openApp", "requirements"}
            [] which = "cell" -> o.pc = "requirements" /\ o.cells > 0
            [] which = "alt" -> o.pc = "requirements" /\ o.alt = "pending"
       /\ IF o.pc = "openApp"
          THEN ops' = [ops EXCEPT ![s] = o1] /\ UNCHANGED <<allItems, batches>>
          ELSE IF ~ok THEN Advance(s, "REJECTED")
          ELSE IF RequirementsMet(o1)
          THEN ops' = [ops EXCEPT ![s] = [o1 EXCEPT !.pc = "write"]]
               /\ UNCHANGED <<allItems, batches>>
          ELSE ops' = [ops EXCEPT ![s] = o1] /\ UNCHANGED <<allItems, batches>>
       /\ UNCHANGED <<currAppObjects, importerCall, destroyed, engineApp, legacy, appInfo, srcItems, loading, activeAsset, searchQuery, scopeStatus, lastCall>>
       /\ UNCHANGED cacheVars
       /\ UNCHANGED modalVars

(***************************************************************************)
(* Scope functions of the modal controller (part_002)                      *)
(***************************************************************************)
Indices(P(_)) == SelectSeq([k \in 1..Len(allItems) |-> k], P)

\* input.toString() as characters, for the texts a search runs over; an
\* array of texts is joined with commas
Characters(text) ==
    CASE text = "" -> <<>>
      [] text = "T1" -> <<"T", "1">>
      [] text = "T2" -> <<"T", "2">>
      [] text = "T3" -> <<"T", "3">>
      [] text = "t1" -> <<"t", "1">>
      [] text = "s1" -> <<"s", "1">>
      [] text = "s2" -> <<"s", "2">>
      [] text = "c1" -> <<"c", "1">>
      [] text = "c2" -> <<"c", "2">>
      [] text = "c3" -> <<"c", "3">>
      [] text = "e1" -> <<"e", "1">>
      [] text = "e2" -> <<"e", "2">>
      [] OTHER -> <<text>>

RECURSIVE JoinCharacters(_)
JoinCharacters(texts) ==
    IF texts = <<>> THEN <<>>
    ELSE IF Len(texts) = 1 THEN Characters(texts[1])
    ELSE Characters(texts[1]) \o <<",">> \o JoinCharacters(Tail(texts))

toLowerCase(chars) ==
    [k \in 1..Len(chars) |->
        CASE chars[k] = "T" -> "t"
          [] chars[k] = "S" -> "s"
          [] chars[k] = "C" -> "c"
          [] OTHER -> chars[k]]

\* -1 !== text.indexOf(query)
indexOfFound(text, query) ==
    \E k \in 0..(Len(text) - Len(query)) : SubSeq(text, k + 1, k + Len(query)) = query

\* matchSearchQuery(input): truthy is !!input, chars is input.toString()
matchSearchQuery(truthy, chars) ==
    truthy /\ indexOfFound(toLowerCase(chars), toLowerCase(Characters(searchQuery)))

\* the filter of the search.query watcher: item k stays in filteredItems
Filtered(k) ==
    \/ searchQuery = ""
    \/ matchSearchQuery(allItems[k].id # "", Characters(allItems[k].id))
    \/ matchSearchQuery(allItems[k].label # "", Characters(allItems[k].label))
    \/ matchSearchQuery(TRUE, JoinCharacters(allItems[k].searchTerms))

\* $scope.selected: filteredItems[activeAsset]
Selected == Indices(LAMBDA k : allItems[k].type = activeAsset /\ Filtered(k))

\* $scope.getSelectedCount
getSelectedCount == Len(SelectSeq(Selected, LAMBDA k : allItems[k].status.selected))

NewOp(i, kind, by) ==
    [item |-> i, kind |-> kind, by |-> by,
     pc |-> FirstCall(allItems[i].type, kind),
     target |-> IF allItems[i].type = "sheet" /\ kind = "update" THEN "pending" ELSE "none",
     cells |-> 0, alt |-> "none"]

\* what $scope.importItem(item) does: nothing, a synchronous TypeError from
\* currAppObjects.sheet.reduce when currAppObjects was never loaded, or a
\* started importer (for a type without importer: a rejected promise)
ImportOutcome(i) ==
    IF ~ImportGuard(allItems[i].status) THEN "noop"
    ELSE IF Registered(allItems[i].type) /\ ~currAppObjects.loaded THEN "threw"
    ELSE "started"

\* $scope.importItem(item), called from the template (by = 0) or by the chain
\* of batch by
importItem(i, by) ==
    LET out == ImportOutcome(i) IN
    /\ out = "started" => FreeSlots # {}
    /\ CASE out = "noop" ->
               /\ UNCHANGED <<allItems, ops>>
               /\ UNCHANGED cacheVars
         [] out = "threw" ->
               /\ allItems' = [allItems EXCEPT ![i].status.importing = TRUE]
               /\ UNCHANGED ops
               /\ UNCHANGED cacheVars
         [] out = "started" ->
               /\ allItems' = [allItems EXCEPT ![i].status.importing = TRUE]
               /\ ops' = [ops EXCEPT ![FreeSlot] = NewOp(i, "import", by)]
               /\ IF allItems[i].type = "sheet" THEN ImporterCallsOpenApp
                                                ELSE UNCHANGED cacheVars

UpdateOutcome(i) == IF ~UpdateGuard(allItems[i].status) THEN "noop" ELSE "started"

\* $scope.updateItem(item); targetId is item.updatableTargetId, which is set
\* whenever status.updatable is
updateItem(i) ==
    LET out == UpdateOutcome(i) IN
    /\ out = "started" => FreeSlots # {}
    /\ CASE out = "noop" ->
               /\ UNCHANGED <<allItems, ops>>
               /\ UNCHANGED cacheVars
         [] out = "started" ->
               /\ allItems' = [allItems EXCEPT ![i].status.updating = TRUE]
               /\ ops' = [ops EXCEPT ![FreeSlot] = NewOp(i, "update", 0)]
               /\ IF allItems[i].type = "sheet" THEN ImporterCallsOpenApp
                                                ELSE UNCHANGED cacheVars

Called(fn, result) ==
    lastCall' = [fn |-> fn, result |-> result]

\* the template calls importItem(item)
ImportItemClick(i) ==
    /\ ~loading
    /\ i \in 1..Len(allItems)
    /\ importItem(i, 0)
    /\ Called("importItem", ImportOutcome(i))
    /\ UNCHANGED <<currAppObjects, importerCall, destroyed, engineApp, legacy, appInfo, srcItems, loading, activeAsset, searchQuery, scopeStatus, batches>>
    /\ UNCHANGED modalVars

\* the template calls updateItem(item)
UpdateItemClick(i) ==
    /\ ~loading
    /\ i \in 1..Len(allItems)
    /\ updateItem(i)
    /\ Called("updateItem", UpdateOutcome(i))
    /\ UNCHANGED <<currAppObjects, importerCall, destroyed, engineApp, legacy, appInfo, srcItems, loading, activeAsset, searchQuery, scopeStatus, batches>>
    /\ UNCHANGED modalVars

NoBatch == [state |-> "idle", list |-> <<>>, pos |-> 1, waiting |-> FALSE]
BatchSlots == 1..MaxBatches
FreeBatchSlots == {b \in BatchSlots : batches[b].state # "running"}

\* $scope.importMultipleItems(): builds the promise chain over the items
importMultipleItems ==
    LET selectedCount == getSelectedCount
        list == SelectSeq(Selected,
                          LAMBDA k : IF selectedCount > 0 THEN allItems[k].status.selected
                                                          ELSE TRUE)
    IN /\ ~loading
       /\ IF scopeStatus.imported
          THEN UNCHANGED <<scopeStatus, batches>>
          ELSE /\ FreeBatchSlots # {}
               /\ scopeStatus' = [scopeStatus EXCEPT !.importing = TRUE]
               /\ batches' = [batches EXCEPT ![CHOOSE b \in FreeBatchSlots : TRUE] =
                                 [state |-> "running", list |-> list, pos |-> 1,
                                  waiting |-> FALSE]]
       /\ UNCHANGED <<currAppObjects, importerCall, destroyed, engineApp, legacy, appInfo, srcItems, allItems, loading, activeAsset, searchQuery, ops, lastCall>>
       /\ UNCHANGED cacheVars
       /\ UNCHANGED modalVars

\* variant: the next link does not wait for the promise of the previous one
BatchStep_eager(b) ==
    LET bt == batches[b] IN
    /\ bt.state = "running"
    /\ IF bt.pos > Len(bt.list)
       THEN /\ batches' = [batches EXCEPT ![b].state = "done"]
            /\ scopeStatus' = [scopeStatus EXCEPT !.importing = FALSE, !.imported = TRUE]
            /\ UNCHANGED <<allItems, ops>>
            /\ UNCHANGED cacheVars
       ELSE LET i == bt.list[bt.pos]
                out == ImportOutcome(i)
            IN /\ importItem(i, b)
               /\ CASE out = "noop" ->
                          /\ batches' = [batches EXCEPT ![b].pos = @ + 1]
                          /\ UNCHANGED scopeStatus
                    [] out = "started" ->
                          /\ batches' = [batches EXCEPT ![b].pos = @ + 1, ![b].waiting = TRUE]
                          /\ UNCHANGED scopeStatus
                    [] out = "threw" ->
                          \* the chain is rejected: later links are skipped, catch runs
                          /\ batches' = [batches EXCEPT ![b].state = "failed"]
                          /\ scopeStatus' = [scopeStatus EXCEPT !.importing = FALSE,
                                                                !.importFailed = TRUE]
    /\ UNCHANGED <<currAppObjects, importerCall, destroyed, engineApp, legacy, appInfo, srcItems, loading, activeAsset, searchQuery, lastCall>>
    /\ UNCHANGED modalVars

\* the next link of the chain of batch b runs: promise.then(importItem(item)),
\* or the final then / catch of the chain
BatchStep(b) ==
    LET bt == batches[b] IN
    /\ bt.state = "running"
    /\ ~bt.waiting
    /\ IF bt.pos > Len(bt.list)
       THEN /\ batches' = [batches EXCEPT ![b].state = "done"]
            /\ scopeStatus' = [scopeStatus EXCEPT !.importing = FALSE, !.imported = TRUE]
            /\ UNCHANGED <<allItems, ops>>
            /\ UNCHANGED cacheVars
       ELSE LET i == bt.list[bt.pos]
                out == ImportOutcome(i)
            IN /\ importItem(i, b)
               /\ CASE out = "noop" ->
                          /\ batches' = [batches EXCEPT ![b].pos = @ + 1]
                          /\ UNCHANGED scopeStatus
                    [] out = "started" ->
                          /\ batches' = [batches EXCEPT ![b].pos = @ + 1, ![b].waiting = TRUE]
                          /\ UNCHANGED scopeStatus
                    [] out = "threw" ->
                          \* the chain is rejected: later links are skipped, catch runs
                          /\ batches' = [batches EXCEPT ![b].state = "failed"]
                          /\ scopeStatus' = [scopeStatus EXCEPT !.importing = FALSE,
                                                                !.importFailed = TRUE]
    /\ UNCHANGED <<currAppObjects, importerCall, destroyed, engineApp, legacy, appInfo, srcItems, loading, activeAsset, searchQuery, lastCall>>
    /\ UNCHANGED modalVars

\* $scope.assetClicked(assetId)
assetClicked(assetId) ==
    /\ ~loading
    /\ IF activeAsset # assetId
       THEN /\ scopeStatus' = [scopeStatus EXCEPT !.imported = FALSE, !.selected = FALSE]
            \* when status.selected was set its watcher runs in the same
            \* digest and deselects the items of the new active asset too
            /\ allItems' = [k \in 1..Len(allItems) |->
                               IF \/ allItems[k].type = activeAsset
                                  \/ scopeStatus.selected /\ allItems[k].type = assetId
                               THEN [allItems[k] EXCEPT !.status.selected = FALSE]
                               ELSE allItems[k]]
       ELSE UNCHANGED <<scopeStatus, allItems>>
    /\ activeAsset' = assetId
    /\ UNCHANGED <<currAppObjects, importerCall, destroyed, engineApp, legacy, appInfo, srcItems, loading, searchQuery, ops, batches, lastCall>>
    /\ UNCHANGED cacheVars
    /\ UNCHANGED modalVars

\* the user types in the search field: the search.query watcher filters the
\* items and calls assetClicked($scope.activeAsset), which changes no flag
\* as the asset stays the same
SearchQueryChanged(query) ==
    /\ ~loading
    /\ query # searchQuery
    /\ searchQuery' = query
    /\ UNCHANGED <<currAppObjects, importerCall, destroyed, engineApp, legacy, appInfo, srcItems, allItems, loading, activeAsset,
                   scopeStatus, ops, batches, lastCall>>
    /\ UNCHANGED cacheVars
    /\ UNCHANGED modalVars

\* variant: the toggle clears the items' imported flag
SelectAllToggled_items ==
    /\ ~loading
    /\ scopeStatus' = [scopeStatus EXCEPT !.selected = ~@]
    /\ allItems' = [k \in 1..Len(allItems) |->
                       IF allItems[k].type = activeAsset
                       THEN [allItems[k] EXCEPT !.status.selected = ~scopeStatus.selected,
                                                !.status.imported = FALSE]
                       ELSE allItems[k]]
    /\ UNCHANGED <<currAppObjects, importerCall, destroyed, engineApp, legacy, appInfo, srcItems, loading, activeAsset, searchQuery,
                   ops, batches, lastCall>>
    /\ UNCHANGED cacheVars
    /\ UNCHANGED modalVars

\* the select-all toggle changes status.selected and its watcher runs
SelectAllToggled ==
    /\ ~loading
    /\ scopeStatus' = [scopeStatus EXCEPT !.selected = ~@, !.imported = FALSE]
    /\ allItems' = [k \in 1..Len(allItems) |->
                       IF allItems[k].type = activeAsset
                       THEN [allItems[k] EXCEPT !.status.selected = ~scopeStatus.selected]
                       ELSE allItems[k]]
    /\ UNCHANGED <<currAppObjects, importerCall, destroyed, engineApp, legacy, appInfo, srcItems, loading, activeAsset, searchQuery,
                   ops, batches, lastCall>>
    /\ UNCHANGED cacheVars
    /\ UNCHANGED modalVars

\* the checkbox of a displayed item is clicked
ItemSelectToggled(i) ==
    /\ ~loading
    /\ \E k \in 1..Len(Selected) : Selected[k] = i
    /\ allItems' = [allItems EXCEPT ![i].status.selected = ~@]
    /\ UNCHANGED <<currAppObjects, importerCall, destroyed, engineApp, legacy, appInfo, srcItems, loading, activeAsset, searchQuery,
                   scopeStatus, ops, batches, lastCall>>
    /\ UNCHANGED cacheVars
    /\ UNCHANGED modalVars

(***************************************************************************)
(* Inputs: what the engine can hold in the current app and in the          *)
(* selected app                                                            *)
(***************************************************************************)
EmptyLists == [t \in Types |-> <<>>]
NotLoaded == [loaded |-> FALSE, list |-> EmptyLists]

DestId(k) == "d" \o ToString(k)
SrcId(k) == "s" \o ToString(k)

\* a cell of a sheet: the name of the visualization and its placement
Cell(name, col) == << <<"name", name>>, <<"col", col>> >>

CellVariants(id) ==
    { <<>>, <<Cell(id \o "-o1", "0")>>, <<Cell(id \o "-o1", "12")>> }

ClassifyTitles == {"T1", "T2"}

\* every item of type t that a collector can return at position ix with id
ItemsOfType(t, id, ix) ==
    CASE t = "script" ->
            {ScriptItem(ix, l, b) : l \in ClassifyTitles, b \in Contents}
      [] t = "sheet" ->
            UNION {{SheetItem(id, l, c, r) : l \in ClassifyTitles, c \in CellVariants(id)}
                   : r \in {ix - 1, ix}}
      [] t = "dimension" ->
            {DimensionItem(id, l, d, <<>>) : l \in ClassifyTitles, d \in Contents}
      [] t = "measure" ->
            {MeasureItem(id, l, d, <<>>) : l \in ClassifyTitles, d \in Contents}
      [] t = "masterObject" ->
            UNION {UNION {{MasterObjectItem(id, l, v, d, e, <<>>) : l \in ClassifyTitles, v \in Visualizations}
                          : d \in {"c1", "c2"}} : e \in Extras}
      [] t = "alternate-state" ->
            {AlternateStateItem(l) : l \in ClassifyTitles}
      [] t = "variable" ->
            UNION {UNION {{VariableItem(id, l, d, e, sc) : l \in ClassifyTitles, d \in {"c1", "c2"}}
                          : e \in Extras} : sc \in {"true", "false"}}

\* the order a collector returns two neighbours in: scripts in script order,
\* sheets by rank, the others by label; state and variable names are unique
InListOrder(t, a, b) ==
    CASE t = "script" -> TRUE
      [] t = "sheet" -> a.properties.rank <= b.properties.rank
      [] t \in {"alternate-state", "variable"} -> TitleOrd(a.label) < TitleOrd(b.label)
      [] OTHER -> TitleOrd(a.label) <= TitleOrd(b.label)

\* the lists of n items of type t that a collector can return
RECURSIVE ListsOfType(_, _)
ListsOfType(t, n) ==
    IF n = 0 THEN {<<>>}
    ELSE LET ext == {p \in ListsOfType(t, n - 1) \X ItemsOfType(t, DestId(n), n) :
                        n = 1 \/ InListOrder(t, p[1][n - 1], p[2])}
         IN {Append(p[1], p[2]) : p \in ext}

\* the contents currAppObjects can have for the classification runs
ClassifyDests ==
    {NotLoaded} \cup
    UNION {UNION {{[loaded |-> TRUE, list |-> [EmptyLists EXCEPT ![t] = L]]
                   : L \in ListsOfType(t, n)} : n \in 0..MaxDest} : t \in Types}

\* the item of a session: position k of the selected app's list of type t
SessionItem(t, id, k, title, c) ==
    CASE t = "script" -> ScriptItem(k, title, c)
      [] t = "sheet" -> SheetItem(id, title, <<Cell(id \o "-o1", c)>>, k - 1)
      [] t = "dimension" -> DimensionItem(id, title, c, <<>>)
      [] t = "measure" -> MeasureItem(id, title, c, <<>>)
      [] t = "masterObject" -> MasterObjectItem(id, title, "barchart", "c1", c, <<>>)
      [] t = "alternate-state" -> AlternateStateItem(title)
      [] t = "variable" -> VariableItem(id, title, c, "e1", "false")

\* the lists the selected app returns for type t: the first item equals the
\* current app's object or differs from it in content
SessionSources(t) ==
    {[k \in 1..NumSrc |-> SessionItem(t, SrcId(k), k, TitleSeq[k], IF k = 1 THEN c ELSE "c1")]
     : c \in IF currAppObjects.list[t] # <<>> THEN {"c1", "c2"} ELSE {"c1"}}

SessionDests ==
    {NotLoaded, [loaded |-> TRUE, list |-> EmptyLists]} \cup
    {[loaded |-> TRUE,
      list |-> [EmptyLists EXCEPT ![t] = <<SessionItem(t, DestId(1), 1, "T1", "c1")>>]]
     : t \in Types}

\* the types worth fetching from the selected app: those the current app has
\* objects of, every type when it has none
SourceTypes ==
    IF \E t \in Types : currAppObjects.list[t] # <<>>
    THEN {t \in Types : currAppObjects.list[t] # <<>>}
    ELSE Types

\* the asset tabs clicked in a session: the opening tab and the tabs with items
AssetChoices == {"sheet"} \cup {allItems[k].type : k \in 1..Len(allItems)}

(***************************************************************************)
(* Specifications                                                          *)
(***************************************************************************)
\* the modal of app "A" is shown and its collectors are fetching
ModalShown ==
    /\ srcItems = <<>>
    /\ allItems = <<>>
    /\ loading = TRUE
    /\ activeAsset = "sheet"
    /\ searchQuery = ""
    /\ importerCall = NoCall
    /\ appInfo = NoAppInfo
    /\ destroyed = FALSE
    /\ engineApp = NoEngineApp
    /\ legacy = NoLegacy
    /\ scopeStatus = [selected |-> FALSE, importing |-> FALSE, imported |-> FALSE,
                      importFailed |-> FALSE]
    /\ ops = [s \in Slots |-> NoOp]
    /\ batches = [b \in BatchSlots |-> NoBatch]
    /\ lastCall = [fn |-> "none", result |-> "none"]
    /\ apps = [a \in AppIds |->
                  IF a = CurrAppId THEN [state |-> "resolved", promise |-> 1]
                  ELSE IF a = "A" THEN [state |-> "resolved", promise |-> 2]
                  ELSE NoEntry]
    /\ _apps = [a \in AppIds |-> NoEntry]
    /\ openCalls = [st \in Sites |->
                       [a \in AppIds |-> IF a = "A" /\ st \in {"appInfo", "modal"} THEN 1 ELSE 0]]
    /\ returned = [st \in {"appInfo", "importers"} |->
                      [a \in AppIds |-> IF st = "appInfo" /\ a = CurrAppId
                                           THEN {[promise |-> 1, settled |-> TRUE]}
                                        ELSE IF st = "appInfo" /\ a = "A"
                                           THEN {[promise |-> 2, settled |-> FALSE]}
                                        ELSE {}]]
    /\ nextPromise = 3
    /\ fsm = "MODAL"
    /\ enterApp = ""
    /\ modalApp = "A"
    /\ modalOpens = 1

\* a session: the modal is shown, the current app's objects are loaded or not
Init ==
    /\ currAppObjects \in SessionDests
    /\ ModalShown

Next ==
    \/ \E t \in SourceTypes : \E src \in SessionSources(t) : ModalLoaded(src)
    \/ \E i \in 1..NumSrc : ImportItemClick(i)
    \/ \E i \in 1..NumSrc : UpdateItemClick(i)
    \/ importMultipleItems
    \/ \E b \in BatchSlots : BatchStep(b)
    \/ \E a \in AssetChoices : assetClicked(a)
    \/ \E s \in Slots, ok \in BOOLEAN, found \in BOOLEAN : EngineSettle(s, ok, found)
    \/ \E s \in Slots : OpenAppAwaited(s)
    \/ \E s \in Slots, which \in {"target", "cell", "alt"}, ok \in BOOLEAN :
          RequirementSettle(s, which, ok)
    \/ \E a \in AppIds, ok \in BOOLEAN : WaitForOpenSettle("importers", a, ok)
    \/ \E a \in AppIds : DelayElapsed("importers", a)

Spec == Init /\ [][Next]_vars

\* a session with the search field and the checkboxes in use: the current
\* app holds a variable
SearchQueries == {"", "t1"}

SelectDests == {d \in SessionDests : d.loaded /\ d.list["variable"] # <<>>}

InitSelect ==
    /\ currAppObjects \in SelectDests
    /\ ModalShown

NextSelect ==
    \/ \E t \in SourceTypes : \E src \in SessionSources(t) : ModalLoaded(src)
    \/ \E i \in 1..NumSrc : ImportItemClick(i)
    \/ \E i \in 1..NumSrc : UpdateItemClick(i)
    \/ importMultipleItems
    \/ \E b \in BatchSlots : BatchStep(b)
    \/ \E a \in AssetChoices : assetClicked(a)
    \/ \E s \in Slots, ok \in BOOLEAN, found \in BOOLEAN : EngineSettle(s, ok, found)
    \/ \E q \in SearchQueries : SearchQueryChanged(q)
    \/ SelectAllToggled
    \/ \E i \in 1..NumSrc : ItemSelectToggled(i)

SpecSelect == InitSelect /\ [][NextSelect]_vars

\* a session whose items include one of a type that importers does not
\* export (a bookmark, as util/app-info.js getBookmarks collects them)
BookmarkItem(id, title) ==
    [type |-> "bookmark", id |-> id, label |-> title, script |-> "",
     properties |-> [NoProps EXCEPT !.fields = << <<"qInfo", id>>, <<"title", title>> >>],
     searchTerms |-> <<>>, tags |-> <<>>]

UnsupportedSources ==
    {<<BookmarkItem(SrcId(1), "T1"), VariableItem(SrcId(2), "T2", "c1", "e1", "false")>>}

InitUnsupported ==
    /\ currAppObjects \in
          {d \in SessionDests : d.loaded => \A t \in Types \ {"variable"} : d.list[t] = <<>>}
    /\ ModalShown

NextUnsupported ==
    \/ \E src \in UnsupportedSources : ModalLoaded(src)
    \/ \E i \in 1..NumSrc : ImportItemClick(i)
    \/ \E i \in 1..NumSrc : UpdateItemClick(i)
    \/ importMultipleItems
    \/ \E b \in BatchSlots : BatchStep(b)
    \/ \E a \in AssetChoices : assetClicked(a)
    \/ \E s \in Slots, ok \in BOOLEAN, found \in BOOLEAN : EngineSettle(s, ok, found)
    \/ \E s \in Slots : NoImporterRejected(s)

SpecUnsupported == InitUnsupported /\ [][NextUnsupported]_vars

\* of the current app
InitClassify ==
    /\ currAppObjects \in ClassifyDests
    /\ ModalShown

\* the tags a collector reads for the item (qMeta.tags, qData.tags)
WithTags(x, tags) == [x EXCEPT !.tags = IF x.type \in {"dimension", "measure", "masterObject"}
                                        THEN tags ELSE <<>>]

NextClassify ==
    \E t \in SourceTypes : \E x \in ItemsOfType(t, SrcId(1), 1) : \E tags \in {<<>>, <<"tag">>} :
        ModalLoaded(<<WithTags(x, tags)>>)

SpecClassify == InitClassify /\ [][NextClassify]_vars

\* the extension instance from its construction: opening and closing modals
InitCache ==
    /\ currAppObjects = NotLoaded
    /\ srcItems = <<>>
    /\ allItems = <<>>
    /\ loading = FALSE
    /\ activeAsset = "sheet"
    /\ searchQuery = ""
    /\ importerCall = NoCall
    /\ appInfo = NoAppInfo
    /\ destroyed = FALSE
    /\ engineApp = NoEngineApp
    /\ legacy = NoLegacy
    /\ scopeStatus = [selected |-> FALSE, importing |-> FALSE, imported |-> FALSE,
                      importFailed |-> FALSE]
    /\ ops = [s \in Slots |-> NoOp]
    /\ batches = [b \in BatchSlots |-> NoBatch]
    /\ lastCall = [fn |-> "none", result |-> "none"]
    /\ apps = [a \in AppIds |-> NoEntry]
    /\ _apps = [a \in AppIds |-> NoEntry]
    /\ openCalls = [st \in Sites |-> [a \in AppIds |-> 0]]
    /\ returned = [st \in {"appInfo", "importers"} |-> [a \in AppIds |-> {}]]
    /\ nextPromise = 1
    /\ fsm = "IDLE"
    /\ enterApp = ""
    /\ modalApp = ""
    /\ modalOpens = 0

NextCache ==
    \/ \E a \in AppIds : FsmOpen(a)
    \/ \E ok \in BOOLEAN : CurrAppLoadSettle(ok, EmptyLists)
    \/ ImportersOpenApp
    \/ \E st \in {"appInfo", "importers"}, a \in AppIds, ok \in BOOLEAN :
          WaitForOpenSettle(st, a, ok)
    \/ \E st \in {"appInfo", "importers"}, a \in AppIds : DelayElapsed(st, a)
    \/ ModalClose

SpecCache == InitCache /\ [][NextCache]_vars

\* what the collectors of currAppObjects.load() can resolve with
LoadedLists == {d.list : d \in {x \in SessionDests : x.loaded}}

\* the extension instance from its construction: the current app's objects
\* are loaded with or without success, the modal is shown, the selected
\* app's objects arrive and are prepared, the modal is closed
NextLoad ==
    \/ \E a \in AppIds : FsmOpen(a)
    \/ \E ok \in BOOLEAN, lists \in LoadedLists : CurrAppLoadSettle(ok, lists)
    \/ \E t \in SourceTypes : \E src \in SessionSources(t) : ModalLoaded(src)
    \/ ModalClose

SpecLoad == InitCache /\ [][NextLoad]_vars

\* the extension instance from its construction to after its $destroy
NextModal ==
    \/ \E a \in AppIds : FsmOpen(a)
    \/ \E ok \in BOOLEAN, lists \in LoadedLists : CurrAppLoadSettle(ok, lists)
    \/ \E t \in SourceTypes : \E src \in SessionSources(t) : ModalLoaded(src)
    \/ ModalClose
    \/ Destroy

SpecModal == InitCache /\ [][NextModal]_vars

\* getExtensions called at any time, its requests answered in any order
NextExtensions ==
    \/ \E c \in ExtensionCalls, given \in BOOLEAN, ids \in SUBSET ExtensionIds :
          GetExtensionsCalled(c, given, ids)
    \/ \E c \in ExtensionCalls, ok \in BOOLEAN : ListResponded(c, ok)
    \/ \E c \in ExtensionCalls, ok \in BOOLEAN : QextResponded(c, ok)

SpecExtensions == InitCache /\ [][NextExtensions]_vars

\* the lists a collector can get: up to MaxItems items, a sheet with up to
\* one cell
CellCounts == UNION {[1..n -> 0..1] : n \in 0..MaxItems}

\* one collector from its call to the settling of its promise
NextCollectors ==
    \/ \E kind \in CollectorKinds : CollectorCalled(kind)
    \/ \E cells \in CellCounts : CollectorListed(cells)
    \/ \E k \in 1..MaxItems, ok \in BOOLEAN : StageSettled(k, ok)
    \/ \E k \in 1..MaxItems, ok \in BOOLEAN : CellSettled(k, ok)

SpecCollectors == InitCache /\ [][NextCollectors]_vars

\* the two openApp functions called with any argument, from construction
NextOpenApp ==
    \/ \E st \in {"appInfo", "importers"}, a \in OpenAppArguments : OpenAppCalled(st, a)
    \/ \E st \in {"appInfo", "importers"}, a \in AppIds, ok \in BOOLEAN :
          WaitForOpenSettle(st, a, ok)
    \/ \E st \in {"appInfo", "importers"}, a \in AppIds : DelayElapsed(st, a)

SpecOpenApp == InitCache /\ [][NextOpenApp]_vars

(***************************************************************************)
(* Importer functions followed call by call (part_000). importerCall holds *)
(* the arguments (props, options), what the engine returns to the reads    *)
(* (read), the engine calls made so far (calls) and how the returned       *)
(* promise settled (result).                                               *)
(***************************************************************************)
\* A script is a sequence of tokens: the section marker, line breaks and
\* pieces of text that hold neither.
MARK == "///$tab "
CRLF == "\r\n"

RECURSIVE Concat(_)
Concat(strs) == IF strs = <<>> THEN "" ELSE Head(strs) \o Concat(Tail(strs))

\* String.prototype.split(MARK) followed by filter(Boolean)
RECURSIVE SplitTabs(_, _)
SplitTabs(script, piece) ==
    IF script = <<>> THEN (IF piece = <<>> THEN <<>> ELSE <<piece>>)
    ELSE IF Head(script) = MARK
    THEN (IF piece = <<>> THEN <<>> ELSE <<piece>>) \o SplitTabs(Tail(script), <<>>)
    ELSE SplitTabs(Tail(script), Append(piece, Head(script)))

\* a.split("\r\n")[0]
RECURSIVE FirstLineTokens(_)
FirstLineTokens(piece) ==
    IF piece = <<>> \/ Head(piece) = CRLF THEN <<>>
    ELSE <<Head(piece)>> \o FirstLineTokens(Tail(piece))

FirstLine(piece) == Concat(FirstLineTokens(piece))

RECURSIVE Flatten(_)
Flatten(seqs) == IF seqs = <<>> THEN <<>> ELSE Head(seqs) \o Flatten(Tail(seqs))

\* variant: the counter is tried once only
UniqueTab_once(tabs, tab, i) ==
    IF \E k \in 1..Len(tabs) : tabs[k] = tab THEN tab \o " (1)" ELSE tab

\* the while loop of script.add: the first of tab, tab (1), tab (2), ... not in tabs
RECURSIVE UniqueTab(_, _, _)
UniqueTab(tabs, tab, i) ==
    LET candidate == IF i = 0 THEN tab ELSE tab \o " (" \o ToString(i) \o ")"
    IN IF \E k \in 1..Len(tabs) : tabs[k] = candidate
       THEN UniqueTab(tabs, tab, i + 1)
       ELSE candidate

EngineCall(name, arg) == [name |-> name, arg |-> arg]

\* script.add(props) when getScript resolved with data and setScript resolves
scriptAdd(props, data) ==
    LET pieces == SplitTabs(data, <<>>)
        tabs == [k \in 1..Len(pieces) |-> FirstLine(pieces[k])]
        tab == UniqueTab(tabs, props.tab, 0)
        section == <<MARK, tab, CRLF>> \o props.qScript
    IN [calls |-> <<EngineCall("getScript", <<>>), EngineCall("setScript", data \o section)>>,
        result |-> "resolved"]

\* script.update(props, options) when getScript resolved with data
scriptUpdate(props, options, data) ==
    LET pieces == SplitTabs(data, <<>>)
        sections == [k \in 1..Len(pieces) |->
                        [tab |-> FirstLine(pieces[k]), section |-> <<MARK>> \o pieces[k]]]
        found == {k \in 1..Len(sections) : sections[k].tab = options.targetId}
        target == CHOOSE k \in found : \A j \in found : k <= j
        updated == [sections EXCEPT ![target].section =
                       <<MARK, options.targetId, CRLF>> \o props.qScript]
    IN IF found # {}
       THEN [calls |-> <<EngineCall("getScript", <<>>),
                         EngineCall("setScript",
                                    Flatten([k \in 1..Len(updated) |-> updated[k].section]))>>,
             result |-> "resolved"]
       ELSE [calls |-> <<EngineCall("getScript", <<>>)>>, result |-> "rejected"]

\* $scope.importItem: currAppObjects.sheet.reduce(Math.max(a, b.properties.rank), 0)
RECURSIVE sheetsMaxRank(_)
sheetsMaxRank(ranks) ==
    IF ranks = <<>> THEN 0
    ELSE LET a == sheetsMaxRank(SubSeq(ranks, 1, Len(ranks) - 1))
             b == ranks[Len(ranks)]
         IN IF a >= b THEN a ELSE b

\* props.key = value: an existing key keeps its place, a new key goes last
SetField(fields, key, value) ==
    IF HasKey(fields, key)
    THEN [k \in 1..Len(fields) |-> IF fields[k][1] = key THEN <<key, value>> ELSE fields[k]]
    ELSE Append(fields, <<key, value>>)

PublishFields ==
    {"createdDate", "modifiedDate", "published", "publishTime", "approved", "owner",
     "sourceObject", "draftObject", "privileges"}

\* variant: the publish fields are removed only while qMeta is there
sanitizeObjectData_once(qData) ==
    IF HasKey(qData.fields, "qMeta")
    THEN [qData EXCEPT !.qMetaDef = OmitFields(@, PublishFields),
                       !.fields = OmitFields(SetField(@, "qMetaDef", "object"), {"qMeta"})]
    ELSE [qData EXCEPT !.qMetaDef = <<>>,
                       !.fields = OmitFields(@, {"qMetaDef"})]

\* sanitizeObjectData(qData). The key qMetaDef of fields tells that the object
\* has a qMetaDef, whose content is the field qMetaDef; _.omit of an
\* undefined qMetaDef gives an empty object, which is assigned.
sanitizeObjectData(qData) ==
    [qData EXCEPT !.qMetaDef = OmitFields(@, PublishFields),
                  !.fields = OmitFields(SetField(@, "qMetaDef", "object"), {"qMeta"})]

\* the requirements of sheet.add, in the order the calls are made
sheetRequirements(props, options) ==
    (IF options.targetId # "" THEN <<EngineCall("getObject", options.targetId)>> ELSE <<>>)
    \o (IF options.appId # ""
        THEN <<EngineCall("openApp", options.appId)>>
             \o [k \in 1..Len(props.cells) |->
                    EngineCall("getObjectProperties", Get(props.cells[k], "name"))]
        ELSE <<>>)
    \o (IF options.importAlternateStates
        THEN <<EngineCall("addAlternateState", Get(props.fields, "qStateName"))>>
        ELSE <<>>)

\* sheet.add(props, options) when every engine call resolves
sheetAdd(props, options) ==
    LET ranked == IF options.sheetsMaxRank # 0
                  THEN [props EXCEPT !.rank = options.sheetsMaxRank + 1]
                  ELSE props
        write == IF options.targetId # ""
                 THEN EngineCall("setProperties", props)
                 ELSE EngineCall("createObject", ranked)
        sheetObjects == IF options.appId # ""
                        THEN [k \in 1..Len(props.cells) |-> Get(props.cells[k], "name")]
                        ELSE <<>>
    IN [calls |-> sheetRequirements(props, options)
                  \o <<write, EngineCall("getFullPropertyTree", <<>>),
                       EngineCall("setFullPropertyTree", sheetObjects)>>,
        result |-> "resolved"]

\* variant: without a target id the sheet is added
sheetUpdate_adds(props, options) == sheetAdd(props, [options EXCEPT !.targetId = ""])

\* sheet.update(props, options)
sheetUpdate(props, options) ==
    IF options.targetId # "" THEN sheetAdd(props, options)
    ELSE [calls |-> <<>>, result |-> "rejected"]

\* masterObject.add(props) when createObject resolves
masterObjectAdd(props) ==
    [calls |-> <<EngineCall("createObject", props)>>, result |-> "resolved"]

\* masterObject.update(props, options) when every engine call resolves
masterObjectUpdate(props, options) ==
    LET origin == Get(props.fields, "qInfo")
    IN [calls |-> <<EngineCall("getObject",
                               IF options.targetId # "" THEN options.targetId ELSE origin),
                    EngineCall("openApp", options.appId),
                    EngineCall("getFullPropertyTree", origin),
                    EngineCall("setFullPropertyTree", options.targetId)>>,
        result |-> "resolved"]

\* variant: the flag of the source variable is kept
variableAdd_keepsFlag(props, engine) ==
    [calls |-> <<EngineCall("createVariableEx", sanitizeObjectData(props))>>,
     result |-> IF engine.fails = "createVariableEx" THEN "rejected" ELSE "resolved"]

\* variable.add(props); engine.fails names the engine call that rejects
variableAdd(props, engine) ==
    LET deleted == [props EXCEPT !.fields = OmitFields(@, {"qIsScriptCreated"})]
    IN [calls |-> <<EngineCall("createVariableEx", sanitizeObjectData(deleted))>>,
        result |-> IF engine.fails = "createVariableEx" THEN "rejected" ELSE "resolved"]

\* variable.update(props, options); engine.target is the destination variable
\* found ("" when there is none), engine.isScript its qIsScriptCreated
variableUpdate(props, options, engine) ==
    LET getVariable == IF options.targetId # ""
                       THEN EngineCall("getVariableById", options.targetId)
                       ELSE EngineCall("getVariableByName", Get(props.fields, "qName"))
        kept == [props EXCEPT !.fields =
                    SetField(SetField(@, "qInfo", engine.target), "qIsScriptCreated",
                             IF engine.isScript = "true" THEN "true" ELSE "false")]
        fallback(calls, p) ==
            LET added == variableAdd(p, engine)
            IN [calls |-> calls \o added.calls, result |-> added.result]
    IN IF engine.target = "" \/ engine.fails = "getVariable"
       THEN fallback(<<getVariable>>, props)
       ELSE IF engine.fails = "getProperties"
       THEN fallback(<<getVariable, EngineCall("getProperties", <<>>)>>, props)
       ELSE IF engine.fails = "setProperties"
       THEN fallback(<<getVariable, EngineCall("getProperties", <<>>),
                       EngineCall("setProperties", kept)>>, kept)
       ELSE [calls |-> <<getVariable, EngineCall("getProperties", <<>>),
                         EngineCall("setProperties", kept)>>,
             result |-> "resolved"]

otherVars == <<currAppObjects, apps, _apps, openCalls, returned, nextPromise, appInfo,
               destroyed, engineApp, legacy>>

\* the importer call runs to the end
Finish(out) ==
    /\ importerCall' = [importerCall EXCEPT !.calls = out.calls, !.result = out.result]
    /\ UNCHANGED otherVars
    /\ UNCHANGED itemVars
    /\ UNCHANGED modalVars

ScriptAddRuns ==
    /\ importerCall.fn = "script.add"
    /\ importerCall.result = "pending"
    /\ Finish(scriptAdd(importerCall.props, importerCall.read))

ScriptUpdateRuns ==
    /\ importerCall.fn = "script.update"
    /\ importerCall.result = "pending"
    /\ Finish(scriptUpdate(importerCall.props, importerCall.options, importerCall.read))

SheetAddRuns ==
    /\ importerCall.fn = "sheet.add"
    /\ importerCall.result = "pending"
    /\ Finish(sheetAdd(importerCall.props, importerCall.options))

SheetUpdateRuns ==
    /\ importerCall.fn = "sheet.update"
    /\ importerCall.result = "pending"
    /\ Finish(sheetUpdate(importerCall.props, importerCall.options))

MasterObjectAddRuns ==
    /\ importerCall.fn = "masterObject.add"
    /\ importerCall.result = "pending"
    /\ Finish(masterObjectAdd(importerCall.props))

MasterObjectUpdateRuns ==
    /\ importerCall.fn = "masterObject.update"
    /\ importerCall.result = "pending"
    /\ Finish(masterObjectUpdate(importerCall.props, importerCall.options))

VariableAddRuns ==
    /\ importerCall.fn = "variable.add"
    /\ importerCall.result = "pending"
    /\ Finish(variableAdd(importerCall.props, importerCall.read))

VariableUpdateRuns ==
    /\ importerCall.fn = "variable.update"
    /\ importerCall.result = "pending"
    /\ Finish(variableUpdate(importerCall.props, importerCall.options, importerCall.read))

\* sanitizeObjectData is applied to the object once more
SanitizeRuns ==
    /\ importerCall.fn = "sanitizeObjectData"
    /\ importerCall.result = "pending"
    /\ importerCall' =
          [importerCall EXCEPT !.props = sanitizeObjectData(@),
                               !.options.applied = @ + 1,
                               !.result = IF importerCall.options.applied = 1
                                          THEN "resolved" ELSE "pending"]
    /\ UNCHANGED otherVars
    /\ UNCHANGED itemVars
    /\ UNCHANGED modalVars

\* inputs: the scripts of the current app and the section handed to the importer
ScriptTabs == {"T1", "T1 (1)", "T2"}
ScriptBodies == {<<>>, <<"c1", CRLF>>, <<"c2">>}
\* text before the first section marker
Preambles == {<<>>, <<"P", CRLF>>, <<"T1", CRLF>>}

ScriptSection(tab, body) == <<MARK, tab, CRLF>> \o body

RECURSIVE ScriptsOf(_)
ScriptsOf(n) ==
    IF n = 0 THEN {<<>>}
    ELSE ScriptsOf(n - 1)
         \cup {sc \o ScriptSection(t, b) : sc \in ScriptsOf(n - 1), t \in ScriptTabs,
                                           b \in ScriptBodies}

Scripts == {pre \o sc : pre \in Preambles, sc \in ScriptsOf(MaxSections)}

Call(fn, props, options, read) ==
    [fn |-> fn, props |-> props, options |-> options, read |-> read,
     calls |-> <<>>, result |-> "pending"]

ScriptCalls ==
    {Call(fn, [tab |-> t, qScript |-> b], [targetId |-> t], sc) :
        fn \in {"script.add", "script.update"}, t \in {"T1", "T2"},
        b \in {<<"c3", CRLF>>, <<"c3">>}, sc \in Scripts}

\* inputs: sheets of the selected app and the ranks of the current app's sheets
Ranks == 0..2
RankLists == {<<>>} \cup {<<r>> : r \in Ranks} \cup {<<r, q>> : r \in Ranks, q \in Ranks}

MetaDefs ==
    {<< <<"title", "A">> >>,
     << <<"title", "A">>, <<"published", "true">>, <<"owner", "u1">> >>}

SheetProps ==
    {[fields |-> << <<"qInfo", "s1">>, <<"qMetaDef", "object">>, <<"qStateName", "$">> >> \o meta,
      cells |-> cells, rank |-> r, qMetaDef |-> md] :
        meta \in {<<>>, << <<"qMeta", "stats">> >>},
        cells \in {<<>>, << << <<"name", "o1">> >> >>},
        r \in Ranks, md \in MetaDefs}

SheetCalls ==
    {Call("sheet.add", p,
          [appId |-> "src1", targetId |-> "", sheetsMaxRank |-> sheetsMaxRank(ranks),
           importAlternateStates |-> TRUE], ranks) :
        p \in SheetProps, ranks \in RankLists}
    \cup {Call("sheet.update", p,
               [appId |-> "src1", targetId |-> t, sheetsMaxRank |-> 0,
                importAlternateStates |-> TRUE], <<>>) :
            p \in SheetProps, t \in {"", "d1"}}

\* inputs: master objects, with and without a list of children
MasterObjectProps ==
    {[fields |-> << <<"qInfo", "m1">>, <<"qMetaDef", "object">>, <<"visualization", v>> >> \o child,
      cells |-> <<>>, rank |-> 0, qMetaDef |-> << <<"title", "A">> >>] :
        v \in {"filterpane", "barchart"},
        child \in {<<>>, << <<"qChildListDef", "list">> >>}}

MasterObjectCalls ==
    {Call("masterObject.add", p, [appId |-> "src1", targetId |-> ""], <<"c1", "c2">>) :
        p \in MasterObjectProps}
    \cup {Call("masterObject.update", p, [appId |-> "src1", targetId |-> t], <<"c1", "c2">>) :
            p \in MasterObjectProps, t \in {"", "d1"}}

\* inputs: variables of the selected app and what the engine answers
VariableProps ==
    {[fields |-> << <<"qInfo", "v1">>, <<"qName", "vToday">> >> \o flag \o meta
                  \o (IF md = <<>> THEN <<>> ELSE << <<"qMetaDef", "object">> >>),
      cells |-> <<>>, rank |-> 0, qMetaDef |-> md] :
        flag \in {<<>>, << <<"qIsScriptCreated", "true">> >>,
                  << <<"qIsScriptCreated", "false">> >>},
        meta \in {<<>>, << <<"qMeta", "stats">> >>},
        md \in {<<>>, << <<"published", "true">> >>}}

EngineAnswers ==
    {[target |-> t, isScript |-> f, fails |-> x] :
        t \in {"", "d1"}, f \in {"true", "false", "undefined"},
        x \in {"none", "getVariable", "getProperties", "setProperties", "createVariableEx"}}

VariableCalls ==
    {Call("variable.add", p, [targetId |-> ""], e) :
        p \in VariableProps, e \in {a \in EngineAnswers : a.target = "" /\ a.isScript = "undefined"}}
    \cup {Call("variable.update", p, [targetId |-> t], e) :
            p \in VariableProps, t \in {"", "d1"}, e \in EngineAnswers}

\* inputs: objects with and without qMetaDef, publish fields and qMeta
SanitizerObjects ==
    {[fields |-> << <<"qInfo", "v1">> >> \o before \o meta \o after,
      cells |-> <<>>, rank |-> 0, qMetaDef |-> md] :
        before \in {<<>>, << <<"qMetaDef", "object">> >>},
        meta \in {<<>>, << <<"qMeta", "stats">> >>},
        after \in {<<>>, << <<"qName", "vToday">> >>},
        md \in {<<>>, << <<"title", "A">> >>,
                << <<"createdDate", "d">>, <<"title", "A">>, <<"privileges", "p">> >>}}

SanitizerCalls ==
    {Call("sanitizeObjectData", o, [applied |-> 0], o) :
        o \in {x \in SanitizerObjects : HasKey(x.fields, "qMetaDef") \/ x.qMetaDef = <<>>}}

ImporterCalls ==
    ScriptCalls \cup SheetCalls \cup MasterObjectCalls \cup VariableCalls \cup SanitizerCalls

InitImporters ==
    /\ currAppObjects = NotLoaded
    /\ srcItems = <<>>
    /\ allItems = <<>>
    /\ loading = FALSE
    /\ activeAsset = "sheet"
    /\ searchQuery = ""
    /\ scopeStatus = [selected |-> FALSE, importing |-> FALSE, imported |-> FALSE,
                      importFailed |-> FALSE]
    /\ ops = [s \in Slots |-> NoOp]
    /\ batches = [b \in BatchSlots |-> NoBatch]
    /\ lastCall = [fn |-> "none", result |-> "none"]
    /\ apps = [a \in AppIds |-> NoEntry]
    /\ _apps = [a \in AppIds |-> NoEntry]
    /\ openCalls = [st \in Sites |-> [a \in AppIds |-> 0]]
    /\ returned = [st \in {"appInfo", "importers"} |-> [a \in AppIds |-> {}]]
    /\ nextPromise = 1
    /\ fsm = "IDLE"
    /\ enterApp = ""
    /\ modalApp = ""
    /\ modalOpens = 0
    /\ importerCall \in ImporterCalls
    /\ appInfo = NoAppInfo
    /\ destroyed = FALSE
    /\ engineApp = NoEngineApp
    /\ legacy = NoLegacy

NextImporters ==
    \/ ScriptAddRuns
    \/ ScriptUpdateRuns
    \/ SheetAddRuns
    \/ SheetUpdateRuns
    \/ MasterObjectAddRuns
    \/ MasterObjectUpdateRuns
    \/ VariableAddRuns
    \/ VariableUpdateRuns
    \/ SanitizeRuns

SpecImporters == InitImporters /\ [][NextImporters]_vars

(***************************************************************************)
(* Imports of one modal session followed on the current app. engineApp     *)
(* holds the app as the engine has it; listed is what currAppObjects.load() *)
(* got from getSheetInfo when the modal was entered, which nothing          *)
(* refreshes while the modal is shown.                                      *)
(***************************************************************************)
MaxSheetImports == 2
MaxScriptOps == 2

sessionVars == <<currAppObjects, apps, _apps, openCalls, returned, nextPromise, appInfo,
                 destroyed, importerCall, legacy>>

\* all but the i-th element
Without(seq, i) == SubSeq(seq, 1, i - 1) \o SubSeq(seq, i + 1, Len(seq))

\* a source sheet of rank r without cells
SheetOfRank(r) ==
    [fields |-> << <<"qInfo", "s1">>, <<"qMetaDef", "object">> >>,
     cells |-> <<>>, rank |-> r, qMetaDef |-> << <<"title", "A">> >>]

\* the rank of the properties sheet.add hands to createObject
CreatedRank(props, options) ==
    LET calls == sheetAdd(props, options).calls
        k == CHOOSE j \in 1..Len(calls) : calls[j].name = "createObject"
    IN calls[k].arg.rank

\* enterModal: currAppObjects.load() resolved, getSheetInfo listed the sheets
SheetsListed(ranks) ==
    /\ ~engineApp.loaded
    /\ engineApp' = [engineApp EXCEPT !.loaded = TRUE, !.sheets = ranks, !.listed = ranks]
    /\ UNCHANGED sessionVars
    /\ UNCHANGED itemVars
    /\ UNCHANGED modalVars

\* $scope.importItem of a sheet item: sheetsMaxRank is computed from
\* currAppObjects.sheet in the call, then sheet.add loads its requirements
SheetImportStarts(r) ==
    /\ engineApp.loaded
    /\ Len(engineApp.pending) + Len(engineApp.done) < MaxSheetImports
    /\ engineApp' = [engineApp EXCEPT !.pending =
          Append(@, [fn |-> "sheet.add",
                     props |-> SheetOfRank(r),
                     options |-> [appId |-> "", targetId |-> "",
                                  sheetsMaxRank |-> sheetsMaxRank(engineApp.listed),
                                  importAlternateStates |-> FALSE],
                     before |-> engineApp.sheets])]
    /\ UNCHANGED sessionVars
    /\ UNCHANGED itemVars
    /\ UNCHANGED modalVars

\* sheet.add: the requirements resolved, createObject is answered
SheetCreated(k, ok) ==
    /\ k \in 1..Len(engineApp.pending)
    /\ engineApp.pending[k].fn = "sheet.add"
    /\ LET op == engineApp.pending[k]
           rank == CreatedRank(op.props, op.options)
       IN engineApp' = [engineApp EXCEPT
             !.pending = Without(@, k),
             !.sheets = IF ok THEN Append(@, rank) ELSE @,
             !.done = Append(@, [fn |-> "sheet.add", imported |-> ok, rank |-> rank,
                                 before |-> op.before])]
    /\ UNCHANGED sessionVars
    /\ UNCHANGED itemVars
    /\ UNCHANGED modalVars

\* sheets imported one by one or at the same time in one modal session
NextRanks ==
    \/ \E ranks \in RankLists : SheetsListed(ranks)
    \/ \E r \in Ranks : SheetImportStarts(r)
    \/ \E k \in 1..MaxSheetImports, ok \in BOOLEAN : SheetCreated(k, ok)

SpecRanks == InitCache /\ [][NextRanks]_vars

\* script items of the selected app: sections with different tab names
ScriptSessionItems ==
    {[tab |-> "T1", qScript |-> <<"a", CRLF>>], [tab |-> "T2", qScript |-> <<"b", CRLF>>]}

\* scripts the current app can hold when the modal is entered
SessionScripts ==
    {<<>>,
     <<MARK, "T1", CRLF, "x", CRLF>>,
     <<MARK, "Main", CRLF, "x", CRLF, MARK, "T2", CRLF, "y", CRLF>>}

\* the operation in flight at position k of the pending list
WithPending(k, op) == [engineApp EXCEPT !.pending[k] = op]

\* enterModal: currAppObjects.load() resolved, the app has a script
ScriptListed(sc) ==
    /\ ~engineApp.loaded
    /\ engineApp' = [engineApp EXCEPT !.loaded = TRUE, !.script = sc]
    /\ UNCHANGED sessionVars
    /\ UNCHANGED itemVars
    /\ UNCHANGED modalVars

\* importItem / updateItem of a script item: script.add and script.update
\* start with currApp.getScript()
ScriptOpStarts(fn, item) ==
    /\ engineApp.loaded
    /\ Len(engineApp.pending) + Len(engineApp.done) < MaxScriptOps
    /\ engineApp' = [engineApp EXCEPT !.pending =
          Append(@, [fn |-> fn, props |-> item, options |-> [targetId |-> item.tab],
                     pc |-> "getScript", write |-> <<>>, section |-> <<>>])]
    /\ UNCHANGED sessionVars
    /\ UNCHANGED itemVars
    /\ UNCHANGED modalVars

\* getScript is answered with the script the app holds at that moment; the
\* then of script.add / script.update builds the new script from it and
\* calls setScript, or rejects
GetScriptResolved(k, ok) ==
    /\ k \in 1..Len(engineApp.pending)
    /\ engineApp.pending[k].fn \in {"script.add", "script.update"}
    /\ engineApp.pending[k].pc = "getScript"
    /\ LET op == engineApp.pending[k]
           data == engineApp.script
           out == IF op.fn = "script.add"
                  THEN scriptAdd(op.props, data)
                  ELSE scriptUpdate(op.props, op.options, data)
           section == IF op.fn = "script.add"
                      THEN SubSeq(out.calls[2].arg, Len(data) + 1, Len(out.calls[2].arg))
                      ELSE <<MARK, op.options.targetId, CRLF>> \o op.props.qScript
       IN IF ok /\ out.result = "resolved"
          THEN engineApp' = WithPending(k, [op EXCEPT !.pc = "setScript",
                                                      !.write = out.calls[2].arg,
                                                      !.section = section])
          ELSE engineApp' = [engineApp EXCEPT
                  !.pending = Without(@, k),
                  !.done = Append(@, [fn |-> op.fn, imported |-> FALSE, section |-> <<>>])]
    /\ UNCHANGED sessionVars
    /\ UNCHANGED itemVars
    /\ UNCHANGED modalVars

\* setScript is answered: the app's script is replaced by the one sent, the
\* importer's promise settles and the item gets status.imported / updated
SetScriptResolved(k, ok) ==
    /\ k \in 1..Len(engineApp.pending)
    /\ engineApp.pending[k].fn \in {"script.add", "script.update"}
    /\ engineApp.pending[k].pc = "setScript"
    /\ LET op == engineApp.pending[k]
       IN engineApp' = [engineApp EXCEPT
             !.pending = Without(@, k),
             !.script = IF ok THEN op.write ELSE @,
             !.done = Append(@, [fn |-> op.fn, imported |-> ok, section |-> op.section])]
    /\ UNCHANGED sessionVars
    /\ UNCHANGED itemVars
    /\ UNCHANGED modalVars

\* script sections added or updated one after the other or at the same time
NextScripts ==
    \/ \E sc \in SessionScripts : ScriptListed(sc)
    \/ \E fn \in {"script.add", "script.update"}, item \in ScriptSessionItems :
          ScriptOpStarts(fn, item)
    \/ \E k \in 1..MaxScriptOps, ok \in BOOLEAN : GetScriptResolved(k, ok)
    \/ \E k \in 1..MaxScriptOps, ok \in BOOLEAN : SetScriptResolved(k, ok)

SpecScripts == InitCache /\ [][NextScripts]_vars

(***************************************************************************)
(* The 1.0 controller (src/qs-emergo-app-object-importer.js): addItem, the *)
(* add functions of variables and bookmarks, and addAllItems.              *)
(***************************************************************************)
MaxLegacyItems == 2

legacyRest == <<currAppObjects, apps, _apps, openCalls, returned, nextPromise, appInfo,
                destroyed, importerCall, engineApp>>

LegacyTypes == {"variables", "bookmarks"}

\* prepareItem: the flags of an item; cb tells where its addition callback
\* is ("none", "pending": its promise is not settled, "threw", "settled"),
\* calls counts the engine calls made for the item
LegacyItem(exists) ==
    [adding |-> FALSE, added |-> FALSE, failed |-> FALSE, exists |-> exists,
     cb |-> "none", calls |-> 0]

LegacyLists == UNION {[1..n -> {LegacyItem(e) : e \in BOOLEAN}] : n \in 1..MaxLegacyItems}

\* the callback of $scope.addBookmark throws before it returns a promise:
\* with the setting on it reads the identifier addStateItemPromisess, which
\* is declared nowhere
CallbackThrows(type, setting) == type = "bookmarks" /\ setting

\* the test of addItem: adding is not part of it
Addable(item) == ~item.added /\ ~item.failed /\ ~item.exists

\* addItem(item, cb) up to the return of cb()
addItem(item, type, setting) ==
    IF Addable(item)
    THEN IF CallbackThrows(type, setting)
         THEN [item EXCEPT !.adding = TRUE, !.cb = "threw"]
         ELSE [item EXCEPT !.adding = TRUE, !.cb = "pending", !.calls = @ + 1]
    ELSE item

\* the modal got the items of one type of the selected app
LegacyShown(type, setting, items) ==
    /\ legacy.type = "none"
    /\ legacy' = [legacy EXCEPT !.type = type, !.bookmarksImportAlternateStates = setting,
                                !.items = items]
    /\ UNCHANGED legacyRest
    /\ UNCHANGED itemVars
    /\ UNCHANGED modalVars

\* the add button of one item: $scope.addVariable(item), $scope.addBookmark(item).
\* The buttons are followed while no addAllItems chain was started.
LegacyAddClicked(i) ==
    /\ legacy.type # "none"
    /\ legacy.chain.state = "none"
    /\ i \in 1..Len(legacy.items)
    /\ legacy.items[i].cb = "none"
    /\ ~legacy.items[i].exists
    /\ legacy' = [legacy EXCEPT !.items[i] =
                     addItem(@, legacy.type, legacy.bookmarksImportAlternateStates)]
    /\ UNCHANGED legacyRest
    /\ UNCHANGED itemVars
    /\ UNCHANGED modalVars

\* $scope.addAllItems(type): the reduce builds the chain on $q.resolve()
addAllItems ==
    /\ legacy.type # "none"
    /\ legacy.chain.state = "none"
    /\ Len(legacy.items) > 0
    /\ \A i \in 1..Len(legacy.items) : legacy.items[i].cb # "pending"
    /\ legacy' = [legacy EXCEPT !.chain = [state |-> "running", at |-> 1]]
    /\ UNCHANGED legacyRest
    /\ UNCHANGED itemVars
    /\ UNCHANGED modalVars

\* the then of the chain for the item at chain.at runs: typeMap[type](a).
\* A throw in it rejects the chain, and the thens of the later items do not
\* run; an item that is skipped or whose callback is already over lets the
\* chain go on at once; otherwise the chain waits for addItem's promise.
AddAllStep ==
    /\ legacy.chain.state = "running"
    /\ legacy.chain.at \in 1..Len(legacy.items)
    /\ LET k == legacy.chain.at
           item == addItem(legacy.items[k], legacy.type, legacy.bookmarksImportAlternateStates)
       IN legacy' = [legacy EXCEPT
             !.items[k] = item,
             !.chain = IF Addable(legacy.items[k])
                          /\ CallbackThrows(legacy.type, legacy.bookmarksImportAlternateStates)
                       THEN [state |-> "rejected", at |-> k]
                       ELSE IF item.cb = "pending"
                       THEN [state |-> "waiting", at |-> k]
                       ELSE IF k = Len(legacy.items)
                       THEN [state |-> "done", at |-> k]
                       ELSE [state |-> "running", at |-> k + 1]]
    /\ UNCHANGED legacyRest
    /\ UNCHANGED itemVars
    /\ UNCHANGED modalVars

\* the promise of an item's callback settles: then / catch of addItem set
\* the flags, and a chain that waits for this item goes on
LegacyCallbackSettles(i, ok) ==
    /\ i \in 1..Len(legacy.items)
    /\ legacy.items[i].cb = "pending"
    /\ legacy' = [legacy EXCEPT
          !.items[i] = [@ EXCEPT !.adding = FALSE, !.added = ok, !.failed = ~ok,
                                 !.cb = "settled"],
          !.chain = IF @.state = "waiting" /\ @.at = i
                    THEN IF i = Len(legacy.items)
                         THEN [state |-> "done", at |-> i]
                         ELSE [state |-> "running", at |-> i + 1]
                    ELSE @]
    /\ UNCHANGED legacyRest
    /\ UNCHANGED itemVars
    /\ UNCHANGED modalVars

NextLegacy ==
    \/ \E t \in LegacyTypes, setting \in BOOLEAN, items \in LegacyLists :
          LegacyShown(t, setting, items)
    \/ \E i \in 1..MaxLegacyItems : LegacyAddClicked(i)
    \/ addAllItems
    \/ AddAllStep
    \/ \E i \in 1..MaxLegacyItems, ok \in BOOLEAN : LegacyCallbackSettles(i, ok)

SpecLegacy == InitCache /\ [][NextLegacy]_vars

\* the engine answers every call, and a then whose promise resolved runs
SpecLegacyFair ==
    /\ SpecLegacy
    /\ WF_vars(AddAllStep)
    /\ \A i \in 1..MaxLegacyItems : WF_vars(\E ok \in BOOLEAN : LegacyCallbackSettles(i, ok))

(***************************************************************************)
(* Properties of the reconciliation engine (checked under SpecClassify)    *)
(***************************************************************************)
Classified == ~loading /\ Len(allItems) > 0

\* names (titles, tab labels, state and variable names) held by the current app
DestNames(t) == {CurrList(t)[j].label : j \in 1..Len(CurrList(t))}

\* C7: an alternate-state or variable item is importable exactly when no
\* object of its type in the current app has its name; an item of any other
\* type is importable whatever the current app holds, also when it exists.
C7_Importable ==
    Classified =>
        \A k \in 1..Len(allItems) :
            LET x == allItems[k] IN
            IF x.type \in {"alternate-state", "variable"}
            THEN x.status.importable = (x.label \notin DestNames(x.type))
            ELSE x.status.importable

\* a variable whose name is taken by a variable with another definition
C7_Witness ==
    /\ Classified
    /\ \E k \in 1..Len(allItems) :
          /\ allItems[k].type = "variable"
          /\ allItems[k].label \in DestNames("variable")
          /\ ~allItems[k].status.exists
          /\ ~allItems[k].status.importable

\* the content that decides whether an update is offered, read from the item
Compared(x) ==
    CASE x.type = "script" -> <<x.script>>
      [] x.type = "sheet" ->
            <<Title(x), ToString(x.properties.rank),
              [j \in 1..Len(x.properties.cells) |-> Get(x.properties.cells[j], "col")]>>
      [] x.type = "dimension" -> <<Get(x.properties.fields, "qDim")>>
      [] x.type = "measure" -> <<Get(x.properties.fields, "qMeasure")>>
      [] x.type = "masterObject" ->
            <<Get(x.properties.fields, "visualization"),
              Get(x.properties.fields, "qHyperCubeDef"),
              Get(x.properties.fields, "color")>>
      [] x.type = "variable" ->
            <<Get(x.properties.fields, "qDefinition"), Get(x.properties.fields, "qComment")>>
      [] OTHER -> <<>>

\* positions of the current app's objects that x would update
UpdateCandidates(x) ==
    IF x.type = "alternate-state" THEN {}
    ELSE {j \in 1..Len(CurrList(x.type)) :
             /\ CurrList(x.type)[j].label = x.label
             /\ Compared(CurrList(x.type)[j]) # Compared(x)}

\* C8: updatableTargetId is the id (for a script section the label) of the
\* first object of the current app, in list order, with the item's title or
\* name and other compared content; it is empty when there is none and for
\* every alternate state; status.updatable is true exactly when it is set.
C8_UpdatableTarget ==
    Classified =>
        \A k \in 1..Len(allItems) :
            LET x == allItems[k]
                M == UpdateCandidates(x)
                first == CHOOSE j \in M : \A i \in M : j <= i
                a == CurrList(x.type)[first]
            IN /\ IF M = {} THEN x.updatableTargetId = ""
                  ELSE x.updatableTargetId = (IF x.type = "script" THEN a.label ELSE a.id)
               /\ x.status.updatable = (x.updatableTargetId # "")

\* two objects of the current app qualify and the first one is the target
C8_Witness ==
    /\ Classified
    /\ \E k \in 1..Len(allItems) :
          /\ allItems[k].type = "dimension"
          /\ Cardinality(UpdateCandidates(allItems[k])) = 2
          /\ allItems[k].updatableTargetId = DestId(1)
          /\ allItems[k].status.updatable

\* C9, as claimed: a masterObject item whose title and visualization type
\* match an object of the current app while its properties (other than the
\* id) differ from it is classified exists, updatable and importable.
C9_AsClaimed ==
    Classified =>
        \A k \in 1..Len(allItems) :
            LET x == allItems[k] IN
            (/\ x.type = "masterObject"
             /\ \E j \in 1..Len(CurrList("masterObject")) :
                   LET a == CurrList("masterObject")[j] IN
                   /\ a.label = x.label
                   /\ Get(a.properties.fields, "visualization")
                        = Get(x.properties.fields, "visualization")
                   /\ Compared(a) # Compared(x))
            => (x.status.exists /\ x.status.updatable /\ x.status.importable)

\* C9, amended: a masterObject item whose title, visualization type and
\* search terms (data definition) match an object of the current app while
\* its other properties differ from it is classified exists, updatable and
\* importable at the same time.
C9_Amended ==
    Classified =>
        \A k \in 1..Len(allItems) :
            LET x == allItems[k] IN
            (/\ x.type = "masterObject"
             /\ \E j \in 1..Len(CurrList("masterObject")) :
                   LET a == CurrList("masterObject")[j] IN
                   /\ a.label = x.label
                   /\ Get(a.properties.fields, "visualization")
                        = Get(x.properties.fields, "visualization")
                   /\ Get(a.properties.fields, "qHyperCubeDef")
                        = Get(x.properties.fields, "qHyperCubeDef")
                   /\ Compared(a) # Compared(x))
            => (x.status.exists /\ x.status.updatable /\ x.status.importable)

\* a master object that differs from its namesake in colour only
C9_Witness ==
    /\ Classified
    /\ \E k \in 1..Len(allItems) :
          LET x == allItems[k] IN
          /\ x.type = "masterObject"
          /\ Len(CurrList("masterObject")) = 1
          /\ CurrList("masterObject")[1].label = x.label
          /\ CurrList("masterObject")[1].searchTerms = srcItems[k].searchTerms
          /\ Get(CurrList("masterObject")[1].properties.fields, "color")
               # Get(x.properties.fields, "color")
          /\ x.status.exists /\ x.status.updatable /\ x.status.importable

(***************************************************************************)
(* Properties of the connection caches (checked under SpecCache)           *)
(***************************************************************************)
Caches == {"appInfo", "importers"}

PromisesOf(st, a) == {r.promise : r \in returned[st][a]}

\* C5, as claimed: on one cache, every call openApp(X) returns the same
\* promise, before and after it settles, and the engine open for X has been
\* issued exactly once, for any identifier X.
C5_AsClaimed ==
    \A st \in Caches, a \in AppIds :
        returned[st][a] # {} =>
            /\ Cardinality(PromisesOf(st, a)) = 1
            /\ openCalls[st][a] = 1

\* C5, amended: on one cache, every call openApp(X) returns the same promise,
\* before and after it settles; the engine open for X has been issued exactly
\* once when X is another app, and never when X is the current app's id.
C5_Amended ==
    \A st \in Caches, a \in AppIds :
        returned[st][a] # {} =>
            /\ Cardinality(PromisesOf(st, a)) = 1
            /\ openCalls[st][a] = (IF a = CurrAppId THEN 0 ELSE 1)

\* one promise for app A was handed out while pending and again once settled
C5_Witness ==
    \E st \in Caches :
        /\ openCalls[st]["A"] = 1
        /\ \E r1, r2 \in returned[st]["A"] :
              r1.promise = r2.promise /\ ~r1.settled /\ r2.settled

\* C6, as claimed: for any document id, the engine open qlik.openApp is
\* issued at most once, counting the collectors' cache, the importers' cache
\* and the modal controller together.
C6_SingleOpen ==
    \A a \in AppIds :
        openCalls["appInfo"][a] + openCalls["importers"][a] + openCalls["modal"][a] <= 1

(***************************************************************************)
(* Properties of a modal session (checked under Spec)                      *)
(***************************************************************************)
Status(i) == allItems[i].status

ItemIndices == 1..Len(allItems)

BatchOps(b) == {s \in Slots : ops[s] # NoOp /\ ops[s].by = b}

\* C1, as claimed: an import that was started settles once the engine calls
\* it issued have settled: an item in the importing state has an import
\* under way that still waits for an engine call or a promise, also after an
\* engine rejection of createObject, getFullPropertyTree or
\* setFullPropertyTree during a sheet add. Stated for sessions whose current
\* app objects were loaded.
C1_ImportSettles ==
    currAppObjects.loaded =>
        \A i \in ItemIndices :
            Status(i).importing =>
                \E s \in Slots :
                    /\ ops[s] # NoOp
                    /\ ops[s].item = i
                    /\ ops[s].kind = "import"
                    /\ ops[s].pc # "hung"

\* C2, as claimed: a batch always runs to its end: when its chain has ended,
\* every item of its list was processed by importItem, so each is imported,
\* marked importFailed or not importable, also after the importer of one of
\* them rejected or threw.
C2_Isolation ==
    \A b \in BatchSlots :
        batches[b].state # "running" =>
            \A k \in 1..Len(batches[b].list) :
                LET st == Status(batches[b].list[k]) IN
                st.imported \/ st.importFailed \/ ~st.importable

\* C3: within one batch the import of item k+1 is started only after the
\* promise of item k settled: a batch has at most one import under way, it is
\* the one of the item last started, and while only batches act on the items
\* at most one item is in the importing state.
C3_Sequential ==
    /\ \A b \in BatchSlots :
          /\ Cardinality(BatchOps(b)) <= 1
          /\ \A s \in BatchOps(b) :
                /\ batches[b].state = "running"
                /\ batches[b].waiting
                /\ batches[b].pos > 1
                /\ ops[s].item = batches[b].list[batches[b].pos - 1]
    /\ lastCall.fn = "none" =>
          Cardinality({i \in ItemIndices : Status(i).importing}) <= 1

\* the second item of a batch is being imported after the first one settled
C3_Witness ==
    \E b \in BatchSlots :
        /\ batches[b].state = "running"
        /\ batches[b].pos = 3
        /\ \E s \in BatchOps(b) : ops[s].item = batches[b].list[2]
        /\ Status(batches[b].list[2]).importing
        /\ ~Status(batches[b].list[1]).importing
        /\ Status(batches[b].list[1]).imported \/ Status(batches[b].list[1]).importFailed

\* C4: importItem on an item that is imported, importFailed or not
\* importable, and updateItem on an item that is updated, updateFailed or not
\* updatable, call no importer and no engine function and leave every status
\* as it was.
C4_NoOp ==
    [][\A i \in 1..NumSrc :
          /\ (/\ ImportItemClick(i)
              /\ \/ Status(i).imported
                 \/ Status(i).importFailed
                 \/ ~Status(i).importable)
             => /\ UNCHANGED <<allItems, ops, batches, scopeStatus>>
                /\ UNCHANGED cacheVars
          /\ (/\ UpdateItemClick(i)
              /\ \/ Status(i).updated
                 \/ Status(i).updateFailed
                 \/ ~Status(i).updatable)
             => /\ UNCHANGED <<allItems, ops, batches, scopeStatus>>
                /\ UNCHANGED cacheVars]_vars

\* importItem was called on an item whose import had failed, and did nothing:
\* every item is importable, none is imported, all have failed
C4_Witness ==
    /\ lastCall = [fn |-> "importItem", result |-> "noop"]
    /\ Len(allItems) > 0
    /\ \A i \in ItemIndices :
          Status(i).importFailed /\ Status(i).importable /\ ~Status(i).imported

\* C10, as claimed: in every state of a session every alternate-state or
\* variable item with exists = true has importable = false.
C10_AsClaimed ==
    \A i \in ItemIndices :
        (Status(i).exists /\ allItems[i].type \in {"alternate-state", "variable"})
            => ~Status(i).importable

\* C10, amended: in every state of a session every alternate-state or
\* variable item with exists = true has importable = false, unless the item
\* was imported in this session (then imported = true holds further imports
\* back).
C10_Amended ==
    \A i \in ItemIndices :
        (Status(i).exists /\ allItems[i].type \in {"alternate-state", "variable"})
            => (~Status(i).importable \/ Status(i).imported)

\* a variable that came to exist by an update, and one that came to exist by
\* an import
C10_Witness ==
    /\ \E i \in ItemIndices :
          /\ allItems[i].type = "variable"
          /\ Status(i).updated /\ Status(i).exists /\ ~Status(i).importable
    /\ \E i \in ItemIndices :
          /\ allItems[i].type = "variable"
          /\ Status(i).imported /\ Status(i).exists /\ Status(i).importable

\* an engine call of the variable update in slot s settles
VariableUpdateSettles(s, pc, ok) ==
    /\ ops[s] # NoOp
    /\ ops[s].kind = "update"
    /\ ops[s].pc = pc
    /\ allItems[ops[s].item].type = "variable"
    /\ \E found \in BOOLEAN : EngineSettle(s, ok, found)

\* C17, as claimed: an update of a variable item that finds no variable of
\* that name in the destination creates the variable, and afterwards the item
\* has status.imported = true and status.updateFailed = false.
C17_AsClaimed ==
    [][\A s \in Slots :
          /\ VariableUpdateSettles(s, "getVariable", FALSE) =>
                 ops'[s].pc = "createVariableEx"
          /\ VariableUpdateSettles(s, "createVariableEx", TRUE) =>
                 /\ allItems'[ops[s].item].status.imported
                 /\ ~allItems'[ops[s].item].status.updateFailed]_vars

\* C17, amended: an update of a variable item that finds no variable of that
\* name in the destination creates the variable instead of failing, and when
\* the create has succeeded the item has status.updated = true, while
\* status.imported stays false and status.updateFailed is left as it was
\* (false, unless another update of the same item has failed before).
C17_Amended ==
    [][\A s \in Slots :
          /\ VariableUpdateSettles(s, "getVariable", FALSE) =>
                 /\ ops'[s].pc = "createVariableEx"
                 /\ allItems' = allItems
          /\ VariableUpdateSettles(s, "createVariableEx", TRUE) =>
                 /\ allItems'[ops[s].item].status.updated
                 /\ ~allItems'[ops[s].item].status.imported
                 /\ allItems'[ops[s].item].status.updateFailed
                        = allItems[ops[s].item].status.updateFailed
                 /\ ops'[s] = NoOp]_vars

\* the update of a variable item has fallen back to createVariableEx, and
\* the item is not marked as failed
C17_Witness ==
    \E s \in Slots :
        /\ ops[s] # NoOp
        /\ ops[s].kind = "update"
        /\ ops[s].pc = "createVariableEx"
        /\ allItems[ops[s].item].type = "variable"
        /\ Status(ops[s].item).updating
        /\ ~Status(ops[s].item).updateFailed
        /\ ~Status(ops[s].item).imported

(***************************************************************************)
(* Properties of the selection and the search (checked under SpecSelect)   *)
(***************************************************************************)
\* C11: once an item's status.imported, importFailed, updated or
\* updateFailed is true it stays true, whatever importItem, updateItem,
\* importMultipleItems, asset switch, select-all toggle or search query
\* follows.
C11_TerminalFlagsStay ==
    [][\A i \in ItemIndices :
          /\ i \in 1..Len(allItems')
          /\ Status(i).imported => allItems'[i].status.imported
          /\ Status(i).importFailed => allItems'[i].status.importFailed
          /\ Status(i).updated => allItems'[i].status.updated
          /\ Status(i).updateFailed => allItems'[i].status.updateFailed]_vars

\* one item is imported, another has failed to update, and afterwards the
\* items were selected through the select-all toggle while a search query
\* is set
C11_Witness ==
    /\ \E i \in ItemIndices : Status(i).imported /\ Status(i).selected
    /\ \E j \in ItemIndices : Status(j).updateFailed /\ Status(j).selected
    /\ scopeStatus.selected
    /\ searchQuery # ""

\* the items importMultipleItems is claimed to process: the selected items of
\* the active type when there is one, else every item of the active type
ClaimedBatch ==
    LET ofType == Indices(LAMBDA k : allItems[k].type = activeAsset)
        chosen == SelectSeq(ofType, LAMBDA k : allItems[k].status.selected)
    IN IF chosen # <<>> THEN chosen ELSE ofType

\* C20, as claimed: importMultipleItems processes exactly the items flagged
\* selected when at least one item of the active type is selected, and
\* otherwise every item of the active type, also while a search query is
\* filtering the displayed list.
C20_ProcessesSelectedOrAll ==
    [][(importMultipleItems /\ ~scopeStatus.imported) =>
          \E b \in BatchSlots :
              /\ batches'[b] # batches[b]
              /\ batches'[b].list = ClaimedBatch]_vars

\* the displayed items an invocation of importMultipleItems processes: the
\* selected ones, or all when none is selected
ProcessedItems ==
    {Selected[k] : k \in {j \in 1..Len(Selected) :
                             getSelectedCount > 0 => Status(Selected[j]).selected}}

\* C35: whenever importMultipleItems is invoked, every processed item that
\* is importable and has neither imported nor importFailed set has its import
\* started, also when the invocation is made after an earlier batch on the
\* same asset type completed and the selection was changed item by item. An
\* invocation that starts nothing changes nothing, so this is stated on the
\* states such an invocation is made in: after a batch over items of the
\* active type has completed, where a processed item is eligible,
\* importMultipleItems does not take its early return.
C35_BatchStartsEligible ==
    (/\ ~loading
     /\ \E b \in BatchSlots :
           /\ batches[b].state = "done"
           /\ batches[b].list # <<>>
           /\ \A k \in 1..Len(batches[b].list) :
                 allItems[batches[b].list[k]].type = activeAsset
     /\ \E i \in ProcessedItems :
           Status(i).importable /\ ~Status(i).imported /\ ~Status(i).importFailed)
       => ~scopeStatus.imported

\* the operation in slot s ends in this step
Settles(s) == ops[s] # NoOp /\ ops'[s] = NoOp

\* the step is the resolution of the last engine call of the operation in slot s
Succeeds(s) ==
    /\ ops[s].pc \in SimpleCalls
    /\ \E found \in BOOLEAN :
          /\ EngineSettle(s, TRUE, found)
          /\ OnResolve(allItems[ops[s].item].type, ops[s].kind, ops[s].pc, found) = "RESOLVED"

\* C29: a successful import sets imported = true, exists = true and
\* importing = false and changes no other status flag of the item; a
\* successful update sets updated = true, exists = true, updating = false and
\* updatable = false and changes no other flag; a failed import or update
\* changes only importing and importFailed (respectively updating and
\* updateFailed). Nothing else of the item, and no other item, changes.
C29_StatusFrame ==
    [][\A s \in Slots :
          Settles(s) =>
              LET i == ops[s].item
                  before == allItems[i].status
                  after == allItems'[i].status
              IN /\ allItems' = [allItems EXCEPT ![i].status = after]
                 /\ CASE ops[s].kind = "import" /\ Succeeds(s) ->
                            after = [before EXCEPT !.imported = TRUE, !.exists = TRUE,
                                                   !.importing = FALSE]
                      [] ops[s].kind = "import" /\ ~Succeeds(s) ->
                            after = [before EXCEPT !.importing = FALSE, !.importFailed = TRUE]
                      [] ops[s].kind = "update" /\ Succeeds(s) ->
                            after = [before EXCEPT !.updated = TRUE, !.exists = TRUE,
                                                   !.updating = FALSE, !.updatable = FALSE]
                      [] ops[s].kind = "update" /\ ~Succeeds(s) ->
                            after = [before EXCEPT !.updating = FALSE,
                                                   !.updateFailed = TRUE]]_vars

\* one item was updated with success and the import of another has failed
C29_Witness ==
    \E i, j \in ItemIndices :
        /\ Status(i).updated /\ Status(i).exists /\ ~Status(i).updatable
        /\ ~Status(i).updating /\ ~Status(i).updateFailed
        /\ Status(j).importFailed /\ ~Status(j).importing /\ ~Status(j).imported
        /\ Status(j).importable /\ ~Status(j).exists
        /\ \A s \in Slots : ops[s] = NoOp

\* the operation in slot s is sheet.add (called directly or by sheet.update)
SheetOp(s) == ops[s] # NoOp /\ allItems[ops[s].item].type = "sheet"

\* the position of the operation in slot s changes to pc in this step
Reaches(s, pc) == ops[s].pc # pc /\ ops'[s] # NoOp /\ ops'[s].pc = pc

\* C28: in sheet.add the engine write of the sheet (createObject, or
\* setProperties on the target) is issued only when the alternate-state add,
\* the loading of every cell object and, for an update, the getObject of the
\* target have resolved; getFullPropertyTree and setFullPropertyTree follow
\* only the resolution of the call before them; a prerequisite that rejects
\* ends the operation as failed without any write.
C28_SheetWriteOrder ==
    [][\A s \in Slots :
          SheetOp(s) =>
              /\ Reaches(s, "write") =>
                    /\ ops[s].pc = "requirements"
                    /\ ops'[s].cells = 0
                    /\ ops'[s].alt = "done"
                    /\ ops'[s].target = (IF ops[s].kind = "update" THEN "done" ELSE "none")
                    /\ \E which \in {"target", "cell", "alt"} : RequirementSettle(s, which, TRUE)
              /\ Reaches(s, "getFullPropertyTree") =>
                    ops[s].pc = "write" /\ \E f \in BOOLEAN : EngineSettle(s, TRUE, f)
              /\ Reaches(s, "setFullPropertyTree") =>
                    ops[s].pc = "getFullPropertyTree" /\ \E f \in BOOLEAN : EngineSettle(s, TRUE, f)
              /\ (\E which \in {"target", "cell", "alt"} :
                     ops[s].pc = "requirements" /\ RequirementSettle(s, which, FALSE)) =>
                    /\ ops'[s] = NoOp
                    /\ LET st == allItems'[ops[s].item].status
                       IN IF ops[s].kind = "import"
                          THEN st.importFailed /\ st.imported = allItems[ops[s].item].status.imported
                          ELSE st.updateFailed /\ st.updated = allItems[ops[s].item].status.updated
              /\ (ops[s].pc = "openApp" /\ ops[s].target = "failed" /\ OpenAppAwaited(s)) =>
                    ops'[s] = NoOp]_vars

\* a sheet with cells is being updated: its target was read, its cells were
\* loaded, the write resolved and setFullPropertyTree is outstanding
C28_Witness ==
    \E s \in Slots :
        /\ SheetOp(s)
        /\ ops[s].kind = "update"
        /\ ops[s].pc = "setFullPropertyTree"
        /\ ops[s].target = "done"
        /\ Len(allItems[ops[s].item].properties.cells) > 0

\* the operations of the given kind under way on item i
OpsOfKind(i, kind) == {s \in Slots : ops[s] # NoOp /\ ops[s].item = i /\ ops[s].kind = kind}

\* C32: for every item the importer's add is invoked at most once per
\* session, also when importItem is triggered again, or a batch that holds
\* the item is started, while an earlier import of the item is in flight: no
\* item ever has two imports under way.
C32_AddInvokedAtMostOnce ==
    \A i \in ItemIndices : Cardinality(OpsOfKind(i, "import")) <= 1

\* C34: no item has both imported and importFailed set, nor both updated
\* and updateFailed, and importing (updating) is set exactly while an import
\* (update) of the item is in flight.
C34_StatusConsistent ==
    \A i \in ItemIndices :
        /\ ~(Status(i).imported /\ Status(i).importFailed)
        /\ ~(Status(i).updated /\ Status(i).updateFailed)
        /\ Status(i).importing <=> OpsOfKind(i, "import") # {}
        /\ Status(i).updating <=> OpsOfKind(i, "update") # {}

(***************************************************************************)
(* Properties of the ranks of imported sheets (checked under SpecRanks)    *)
(***************************************************************************)
ImportedSheets == {k \in 1..Len(engineApp.done) : engineApp.done[k].imported}

\* C31: every imported sheet has a rank greater than the rank of every sheet
\* that was in the current app when its import started, and the ranks of
\* the imported sheets are pairwise distinct.
C31_ImportedSheetSortsLast ==
    /\ \A k \in ImportedSheets :
          \A j \in 1..Len(engineApp.done[k].before) :
             engineApp.done[k].rank > engineApp.done[k].before[j]
    /\ \A k \in ImportedSheets, j \in ImportedSheets :
          k # j => engineApp.done[k].rank # engineApp.done[j].rank

(***************************************************************************)
(* Properties of overlapping script operations (checked under SpecScripts) *)
(***************************************************************************)
\* section is a run of consecutive tokens of script
Contains(script, section) ==
    \E k \in 0..(Len(script) - Len(section)) :
       SubSeq(script, k + 1, k + Len(section)) = section

\* C33: every section written by a script.add or script.update that
\* completed with success is in the current app's script, however the
\* getScript and setScript calls of two operations interleave.
C33_WrittenSectionKept ==
    \A k \in 1..Len(engineApp.done) :
       engineApp.done[k].imported
          => Contains(engineApp.script, engineApp.done[k].section)

(***************************************************************************)
(* Properties of the 1.0 controller (checked under SpecLegacyFair)         *)
(***************************************************************************)
LegacyIndices == 1..Len(legacy.items)

LegacyOver(i) ==
    /\ ~legacy.items[i].adding
    /\ legacy.items[i].added # legacy.items[i].failed

\* C39: an item whose adding flag was set gets adding = false and exactly
\* one of added and failed; a started addAllItems gets to every item of the
\* list, so that each is added, failed or skipped as existing; an existing
\* item is skipped without an engine call.
C39_EveryAdditionEnds ==
    /\ [](\A i \in LegacyIndices : legacy.items[i].exists => legacy.items[i].calls = 0)
    /\ \A i \in 1..MaxLegacyItems :
          (i \in LegacyIndices /\ legacy.items[i].adding)
             ~> (i \in LegacyIndices /\ LegacyOver(i))
    /\ (legacy.chain.state # "none")
          ~> (\A i \in LegacyIndices : legacy.items[i].exists \/ LegacyOver(i))

(***************************************************************************)
(* Properties of the controller's state machine (checked under SpecModal)  *)
(***************************************************************************)
\* C38: the state machine is in IDLE or in MODAL, a modal exists only while
\* it is in MODAL, and after the controller's $destroy no modal is open or
\* opened later.
C38_ModalOnlyWhileAlive ==
    /\ fsm \in {"IDLE", "MODAL"}
    /\ modalApp # "" => fsm = "MODAL"
    /\ destroyed => modalApp = ""

(***************************************************************************)
(* Properties of openApp's arguments (checked under SpecOpenApp)           *)
(***************************************************************************)
\* C24: openApp called with an empty or undefined identifier returns a
\* rejected promise, makes no engine open call and leaves the cache mapping
\* as it was; called with an object that has an id field it returns a promise
\* resolved with that object, again without engine open call or cache change.
C24_OpenAppWithoutIdentifier ==
    [][\A st \in {"appInfo", "importers"} : \A a \in {"", "obj"} :
          OpenAppCalled(st, a) =>
              /\ apps' = apps
              /\ _apps' = _apps
              /\ openCalls' = openCalls
              /\ importerCall'.result = (IF a = "" THEN "rejected" ELSE "resolved")
              /\ a = "obj" => importerCall'.value = a]_vars

\* both kinds of call were made, the empty one last and on a cache that
\* holds nothing yet, while the other module's cache holds an opened app
C24_Witness ==
    /\ importerCall # NoCall
    /\ importerCall.fn = "openApp"
    /\ importerCall.appId = ""
    /\ importerCall.seen = {"", "obj"}
    /\ importerCall.result = "rejected"
    /\ \E st \in {"appInfo", "importers"} :
          /\ importerCall.site = st
          /\ \A a \in AppIds : (IF st = "appInfo" THEN apps ELSE _apps)[a] = NoEntry
          /\ \E a \in AppIds : (IF st = "appInfo" THEN _apps ELSE apps)[a].state = "resolved"

(***************************************************************************)
(* Properties of the loading of a document's objects (checked under        *)
(* SpecLoad)                                                               *)
(***************************************************************************)
\* C23: when a collector fetch rejects while the current app's objects are
\* loaded, the rejection reaches the promise enterModal waits for and the
\* failure dialog is shown in place of the modal, so no item is ever
\* classified and offered for import while the current app's objects are
\* not loaded.
C23_NeverClassifiedAgainstFailedLoad ==
    \A k \in 1..Len(allItems) : currAppObjects.loaded

\* the cache of the module at site st
CacheOf(st) == IF st = "appInfo" THEN apps ELSE _apps

\* C36: a failed open is not retried and not evicted: once the engine's
\* open signal for identifier X rejected, the rejected promise stays in the
\* cache, and every later openApp(X) returns that same rejected promise
\* without a new engine open call.
C36_RejectedOpenStays ==
    [][\A st \in {"appInfo", "importers"} : \A a \in AppIds :
          CacheOf(st)[a].state = "rejected" =>
              /\ CacheOf(st)'[a] = CacheOf(st)[a]
              /\ openCalls'[st][a] = openCalls[st][a]
              /\ OpenAppCalled(st, a) =>
                    /\ importerCall'.result = "rejected"
                    /\ [promise |-> CacheOf(st)[a].promise, settled |-> TRUE]
                          \in returned'[st][a]
                    /\ \A h \in returned'[st][a] : h.promise = CacheOf(st)[a].promise]_vars

\* openApp("A") of util/app-info.js was called after the open of A had
\* failed: the promise it got had settled, and A was opened once
C36_Witness ==
    /\ apps["A"].state = "rejected"
    /\ importerCall # NoCall
    /\ importerCall.fn = "openApp"
    /\ importerCall.site = "appInfo"
    /\ importerCall.appId = "A"
    /\ importerCall.result = "rejected"
    /\ [promise |-> apps["A"].promise, settled |-> TRUE] \in returned["appInfo"]["A"]
    /\ [promise |-> apps["A"].promise, settled |-> FALSE] \in returned["appInfo"]["A"]
    /\ openCalls["appInfo"]["A"] = 1

(***************************************************************************)
(* Properties of the extension data (checked under SpecExtensions)         *)
(***************************************************************************)
\* C21: over any sequence and interleaving of getExtensions calls the
\* metadata file of each extension id is requested at most once.
C21_QextRequestedAtMostOnce ==
    \A a \in ExtensionIds : appInfo.qextRequests[a] <= 1

\* C37: every promise returned by getExtensions resolves only after the
\* listing of the extensions has been stored in extensionList: a call made
\* while the listing request is in flight does not resolve with an empty
\* list, and does not skip the metadata of the installed extensions it asked
\* for.
C37_ResolvesAfterListing ==
    \A c \in ExtensionCalls :
        appInfo.calls[c].pc = "resolved" =>
            /\ appInfo.extensionList = "loaded"
            /\ appInfo.calls[c].given =>
                  \A a \in appInfo.calls[c].ids \cap Installed : a \in appInfo.typed

(***************************************************************************)
(* Properties of the collectors (checked under SpecCollectors)             *)
(***************************************************************************)
\* item k of the running collector has detail requests outstanding
Outstanding(k) ==
    \/ appInfo.collector.items[k].stage \in {"object", "details"}
    \/ appInfo.collector.items[k].cells > 0

CollectorItems == 1..Len(appInfo.collector.items)

\* the fetch of item k + 1 is started only when item k is done, and at most
\* one item has requests outstanding
OneItemAtATime ==
    /\ \A k \in CollectorItems :
          (k + 1 \in CollectorItems /\ appInfo.collector.items[k + 1].stage # "waiting")
             => ItemDone(appInfo.collector.items[k])
    /\ Cardinality({k \in CollectorItems : Outstanding(k)}) <= 1

\* C26 as claimed: in every collector that resolves per-item details, the
\* sheet collector included, the detail fetch of item k+1 is started only
\* after that of item k has completed, so at most one item's detail
\* requests are outstanding.
C26_AsClaimed == OneItemAtATime

\* C26 amended: the dimension, measure, masterObject, variable and bookmark
\* collectors fetch one item at a time; the sheet collector has started the
\* fetches of all its sheets and of their cells once its list has arrived.
C26_Amended ==
    /\ appInfo.collector.kind \in CollectorKinds \ {"sheet"} => OneItemAtATime
    /\ appInfo.collector.kind = "sheet" =>
          \A k \in CollectorItems : appInfo.collector.items[k].stage # "waiting"

\* a dimension collector with three items: the first is done, the details
\* of the second are being fetched, the third has not been started
C26_Witness ==
    /\ appInfo.collector.kind = "dimension"
    /\ appInfo.collector.pc = "items"
    /\ Len(appInfo.collector.items) = 3
    /\ ItemDone(appInfo.collector.items[1])
    /\ appInfo.collector.items[2].stage = "details"
    /\ appInfo.collector.items[3].stage = "waiting"

(***************************************************************************)
(* Properties of items without importer (checked under SpecUnsupported)    *)
(***************************************************************************)
Unsupported(i) == i \in ItemIndices /\ ~Registered(allItems[i].type)

\* the operations in flight on item i
OpsOn(i) == {s \in Slots : ops[s] # NoOp /\ ops[s].item = i}

Finished(fn) == importerCall.fn = fn /\ importerCall.result # "pending"

\* the argument of the last engine call named name, <<>> when there is none
Sent(name) ==
    LET at == {k \in 1..Len(importerCall.calls) : importerCall.calls[k].name = name}
    IN IF at = {} THEN <<>>
       ELSE importerCall.calls[CHOOSE k \in at : \A j \in at : j <= k].arg

WasCalled(name) == \E k \in 1..Len(importerCall.calls) : importerCall.calls[k].name = name

\* a script read as its author sees it: the text before the first section
\* marker, and the sections that the markers start
MarkersIn(script) == {k \in 1..Len(script) : script[k] = MARK}

PreambleOf(script) ==
    IF MarkersIn(script) = {} THEN script
    ELSE SubSeq(script, 1, (CHOOSE k \in MarkersIn(script) : \A j \in MarkersIn(script) : k <= j) - 1)

SectionAt(script, p) ==
    LET later == {k \in MarkersIn(script) : k > p}
        last == IF later = {} THEN Len(script)
                ELSE (CHOOSE k \in later : \A j \in later : k <= j) - 1
        breaks == {k \in (p + 1)..last : script[k] = CRLF}
        br == IF breaks = {} THEN last + 1 ELSE CHOOSE k \in breaks : \A j \in breaks : k <= j
    IN [tab |-> Concat(SubSeq(script, p + 1, br - 1)),
        body |-> SubSeq(script, br + 1, last)]

RECURSIVE SectionsFrom(_, _)
SectionsFrom(script, p) ==
    IF p > Len(script) THEN <<>>
    ELSE IF script[p] = MARK THEN <<SectionAt(script, p)>> \o SectionsFrom(script, p + 1)
    ELSE SectionsFrom(script, p + 1)

SectionsOf(script) == SectionsFrom(script, 1)

RECURSIVE Render(_)
Render(sections) ==
    IF sections = <<>> THEN <<>>
    ELSE <<MARK, Head(sections).tab, CRLF>> \o Head(sections).body \o Render(Tail(sections))

TabTitles(script) == {SectionsOf(script)[k].tab : k \in 1..Len(SectionsOf(script))}

PairwiseDistinctTabs(script) == Cardinality(TabTitles(script)) = Len(SectionsOf(script))

Numbered(tab, n) == tab \o " (" \o ToString(n) \o ")"

ComparedTitles(script) ==
    TabTitles(script)
        \cup (IF PreambleOf(script) = <<>> THEN {}
              ELSE {Concat(SubSeq(PreambleOf(script), 1,
                                  (CHOOSE k \in 1..(Len(PreambleOf(script)) + 1) :
                                      /\ k = Len(PreambleOf(script)) + 1 \/ PreambleOf(script)[k] = CRLF
                                      /\ \A j \in 1..(k - 1) : PreambleOf(script)[j] # CRLF) - 1))})

C13_ReplacesOneSection ==
    Finished("script.update") =>
        LET read == importerCall.read
            T == importerCall.options.targetId
            secs == SectionsOf(read)
            titled == {k \in 1..Len(secs) : secs[k].tab = T}
            first == CHOOSE k \in titled : \A j \in titled : k <= j
        IN IF titled # {}
           THEN /\ importerCall.result = "resolved"
                /\ Sent("setScript")
                     = PreambleOf(read)
                         \o Render([secs EXCEPT ![first].body = importerCall.props.qScript])
           ELSE /\ importerCall.result = "rejected"
                /\ ~WasCalled("setScript")

\* the engine calls of the importer call that are named name
CallsNamed(name) ==
    {k \in 1..Len(importerCall.calls) : importerCall.calls[k].name = name}

\* C14, as claimed: importing a new sheet (no target id) creates it with rank
\* equal to the maximum rank of the destination's sheets plus 1, for every
\* destination sheet set, also one whose only sheet has rank 0 and one with no
\* sheets (where the maximum the code starts from is 0).
C14_RankIsMaxPlusOne ==
    (Finished("sheet.add") /\ importerCall.options.targetId = "") =>
        LET ranks == importerCall.read
            max == IF ranks = <<>> THEN 0
                   ELSE CHOOSE r \in {ranks[k] : k \in 1..Len(ranks)} :
                            \A k \in 1..Len(ranks) : ranks[k] <= r
        IN /\ WasCalled("createObject")
           /\ Sent("createObject").rank = max + 1

\* C15, as claimed: the properties sheet add passes to createObject and
\* setProperties hold no publish metadata field in qMetaDef and no qMeta block.
C15_SheetPropsSanitized ==
    (importerCall.fn \in {"sheet.add", "sheet.update"} /\ importerCall.result # "pending") =>
        \A k \in CallsNamed("createObject") \cup CallsNamed("setProperties") :
            /\ \A f \in PublishFields : ~HasKey(importerCall.calls[k].arg.qMetaDef, f)
            /\ ~HasKey(importerCall.calls[k].arg.fields, "qMeta")

\* C16, as claimed: when a masterObject item whose properties carry
\* qChildListDef is imported with add, the importer fetches the origin's full
\* property tree and writes it to the created object.
C16_AddCopiesPropertyTree ==
    (Finished("masterObject.add") /\ HasKey(importerCall.props.fields, "qChildListDef")) =>
        /\ WasCalled("createObject")
        /\ \E g \in CallsNamed("getFullPropertyTree") :
               /\ importerCall.calls[g].arg = Get(importerCall.props.fields, "qInfo")
               /\ \E w \in CallsNamed("setFullPropertyTree") : g < w

\* C18: every createVariableEx call of variable.add and of the fallback of
\* variable.update receives properties without qIsScriptCreated; every
\* setProperties call of variable.update receives the destination variable's
\* id and the destination variable's qIsScriptCreated, never the source's.
C18_VariableFlag ==
    (importerCall.fn \in {"variable.add", "variable.update"} /\ importerCall.result # "pending") =>
        /\ \A k \in CallsNamed("createVariableEx") :
               ~HasKey(importerCall.calls[k].arg.fields, "qIsScriptCreated")
        /\ \A k \in CallsNamed("setProperties") :
               /\ Get(importerCall.calls[k].arg.fields, "qInfo") = importerCall.read.target
               /\ Get(importerCall.calls[k].arg.fields, "qIsScriptCreated")
                      = (IF importerCall.read.isScript = "true" THEN "true" ELSE "false")

\* a script-created source variable was written over a destination variable
\* that is not script-created, the write failed and the variable was created
C18_Witness ==
    /\ Finished("variable.update")
    /\ Get(importerCall.props.fields, "qIsScriptCreated") = "true"
    /\ importerCall.read.isScript = "false"
    /\ importerCall.read.target = "d1"
    /\ CallsNamed("setProperties") # {}
    /\ CallsNamed("createVariableEx") # {}

C25_SheetUpdateNeedsTarget ==
    Finished("sheet.update") =>
        IF importerCall.options.targetId = ""
        THEN importerCall.result = "rejected" /\ importerCall.calls = <<>>
        ELSE /\ importerCall.result = "resolved"
             /\ Sent("getObject") = importerCall.options.targetId
             /\ \E g \in CallsNamed("getObject") : \E w \in CallsNamed("setProperties") :
                    g < w /\ importerCall.calls[w].arg = importerCall.props
             /\ ~WasCalled("createObject")

\* a sheet with a cell was written onto the existing sheet d1
C25_Witness ==
    /\ Finished("sheet.update")
    /\ importerCall.options.targetId = "d1"
    /\ importerCall.props.cells # <<>>
    /\ WasCalled("setProperties")
    /\ Sent("setFullPropertyTree") = <<"o1">>

\* C30, as claimed: variable.update calls createVariableEx only when the
\* lookup of the destination variable found no variable; when the variable
\* was found and getProperties or setProperties on it rejects, the update
\* fails and no create is attempted.
C30_CreateOnlyWhenNotFound ==
    Finished("variable.update") =>
        /\ WasCalled("createVariableEx") =>
               (importerCall.read.target = "" \/ importerCall.read.fails = "getVariable")
        /\ (/\ importerCall.read.target # ""
            /\ importerCall.read.fails \in {"getProperties", "setProperties"}) =>
               importerCall.result = "rejected"

====
